---- MODULE Spec2Model ----
(***************************************************************************)
(* The PinLang interpreter (core/interpreter.py) and its entry point       *)
(* run_code (main.py) as a state machine.  A run starts after the parser   *)
(* has produced the statement list of one source text; each step is one    *)
(* position of the interpreter: the head of interpret's dispatch loop, the *)
(* for loop of execute_if / execute_loop over a body, the while test of    *)
(* execute_loop, the blocking read of execute_input, and the return of a   *)
(* result (None or JumpResult) from a callee to its caller.                *)
(***************************************************************************)
EXTENDS Integers, Sequences, FiniteSets, TLC

VARIABLES
    prog,             \* which source text is being run (index into Programs)
    tokens,           \* run_code: the token list the lexer returned
    pos,              \* Parser.pos
    ast,              \* parse_program: statements; run_code: ast, the program run
    phase,            \* position of the interpreter (see the actions)
    variables,        \* Interpreter.variables: name -> value
    heap,             \* the list objects: heap[r] holds the items of list r
    jump_targets,     \* Interpreter.jump_targets: target name -> statement index
    current_idx,      \* interpret: current_idx (0-based, as in the code)
    iteration_count,  \* interpret: iteration_count
    stack,            \* active execute_if / execute_loop calls, outermost first
    retval,           \* the result a callee has just returned to its caller
    cur,              \* the Input statement blocked in input()
    error,            \* the exception caught by interpret's except clauses
    stdout,           \* last line printed by the program or the interpreter
    warned,           \* which infinite-loop warnings have been printed
    result,           \* what run_code returned
    hist              \* history of the run, read only by the properties

vars == <<prog, tokens, pos, ast, phase, variables, heap, jump_targets, current_idx, iteration_count,
          stack, retval, cur, error, stdout, warned, result, hist>>

-----------------------------------------------------------------------------
(* Runtime values: Python objects tagged with their type.                  *)

None == [t |-> "none"]
IntV(n) == [t |-> "int", v |-> n]
StrV(s) == [t |-> "str", v |-> s]
BoolV(b) == [t |-> "bool", v |-> b]

\* a float, kept exactly as the fraction num/den in lowest terms, den > 0
\* (rounding of the binary representation is not modelled)
FloatV(num, den) == [t |-> "float", v |-> <<num, den>>]

\* a list: the reference r of the list object heap[r]; two variables bound to
\* the same list hold the same reference
ListV(r) == [t |-> "list", ref |-> r]

\* isinstance(x, (int, float)); bool is a subclass of int in Python
IsNumber(x) == x.t \in {"int", "bool", "float"}

\* isinstance(x, int)
IsInt(x) == x.t \in {"int", "bool"}

\* the fraction <<num, den>> a numeric value stands for in arithmetic
NumOf(x) ==
    CASE x.t = "bool" -> <<(IF x.v THEN 1 ELSE 0), 1>>
      [] x.t = "int" -> <<x.v, 1>>
      [] OTHER -> x.v

Abs(n) == IF n < 0 THEN -n ELSE n

RECURSIVE Gcd(_, _)
Gcd(a, b) == IF b = 0 THEN a ELSE Gcd(b, a % b)

\* the value of the fraction n/d (d # 0): an int when asInt, else a float
MkNumber(n, d, asInt) ==
    IF asInt THEN IntV(n)
    ELSE LET g == Gcd(Abs(n), Abs(d))
             s == IF d < 0 THEN -1 ELSE 1
         IN FloatV((s * n) \div g, (s * d) \div g)

-----------------------------------------------------------------------------
(* AST nodes (core/ast.py).  Optional fields hold None.                    *)

LiteralNode(value, line_num) ==
    [kind |-> "LiteralNode", value |-> value, line_num |-> line_num]
VarNode(var_name, line_num) ==
    [kind |-> "VarNode", var_name |-> var_name, line_num |-> line_num]
BinOpNode(left, op, right, line_num) ==
    [kind |-> "BinOpNode", left |-> left, op |-> op, right |-> right,
     line_num |-> line_num]
PrintNode(value, line_num) ==
    [kind |-> "PrintNode", value |-> value, line_num |-> line_num]
VarDeclNode(var_name, value, line_num) ==
    [kind |-> "VarDeclNode", var_name |-> var_name, value |-> value,
     line_num |-> line_num]
ListCreateNode(var_name, values, line_num) ==
    [kind |-> "ListCreateNode", var_name |-> var_name, values |-> values,
     line_num |-> line_num]
ListGetNode(list_name, index, target_var, line_num) ==
    [kind |-> "ListGetNode", list_name |-> list_name, index |-> index,
     target_var |-> target_var, line_num |-> line_num]
ListEditNode(list_name, index, value, line_num) ==
    [kind |-> "ListEditNode", list_name |-> list_name, index |-> index,
     value |-> value, line_num |-> line_num]
ConvertNode(value, type_name, target_var, line_num) ==
    [kind |-> "ConvertNode", value |-> value, type_name |-> type_name,
     target_var |-> target_var, line_num |-> line_num]
CalculateNode(expr, target_var, line_num) ==
    [kind |-> "CalculateNode", expr |-> expr, target_var |-> target_var,
     line_num |-> line_num]
IfNode(condition, body, else_body, line_num) ==
    [kind |-> "IfNode", condition |-> condition, body |-> body,
     else_body |-> else_body, line_num |-> line_num]
LoopNode(variable, condition, value, count, body, line_num) ==
    [kind |-> "LoopNode", variable |-> variable, condition |-> condition,
     value |-> value, count |-> count, body |-> body, line_num |-> line_num]
InputNode(prompt, target_var, restriction, line_num) ==
    [kind |-> "InputNode", prompt |-> prompt, target_var |-> target_var,
     restriction |-> restriction, line_num |-> line_num]
JumpNode(file_name, target_type, target_value, line_num) ==
    [kind |-> "JumpNode", file_name |-> file_name, target_type |-> target_type,
     target_value |-> target_value, line_num |-> line_num]
LabelNode(label_name, line_num) ==
    [kind |-> "LabelNode", label_name |-> label_name, line_num |-> line_num]

\* isinstance(x, AST)
IsAST(x) == "kind" \in DOMAIN x

-----------------------------------------------------------------------------
(* Exceptions.  A raise is a record; ok |-> TRUE marks a normal return.    *)

\* the file name run_code, and with it the Lexer and the Interpreter, is given
FileName == "t.pin"

\* PinLangRuntimeError(message, line_num, file_name); the file name and the
\* fix suggestion of an exception are a string or None
PinLangRuntimeError(message, line_num, file) ==
    [cls |-> "PinLangRuntimeError", message |-> message, line_num |-> line_num,
     file_name |-> file]

\* PinLangTypeError(message, line_num, file_name, fix_suggestion)
PinLangTypeError(message, line_num, file, fix_suggestion) ==
    [cls |-> "PinLangTypeError", message |-> message, line_num |-> line_num,
     file_name |-> file, fix_suggestion |-> fix_suggestion]

\* Interpreter.error and Interpreter.type_error raise with self.file_name
RuntimeErr(message, line_num) ==
    PinLangRuntimeError(message, line_num, StrV(FileName))
TypeErr(message, line_num) ==
    PinLangTypeError(message, line_num, StrV(FileName), None)
HostErr(message) ==
    [cls |-> "TypeError", message |-> message, line_num |-> 0]

Ok(val) == [ok |-> TRUE, val |-> val]
Raise(exc) == [ok |-> FALSE, exc |-> exc]

-----------------------------------------------------------------------------
(* str(n) for an integer, as the f-strings of the interpreter format it.   *)

Digits == <<"0", "1", "2", "3", "4", "5", "6", "7", "8", "9">>

RECURSIVE NatToStr(_)
NatToStr(n) ==
    IF n < 10 THEN Digits[n + 1]
    ELSE NatToStr(n \div 10) \o Digits[(n % 10) + 1]

IntToStr(n) == IF n < 0 THEN "-" \o NatToStr(-n) ELSE NatToStr(n)

-----------------------------------------------------------------------------
(* Python's operators on runtime values.                                   *)

\* the characters strings are ordered by, in code point order
Chars == " !'(),-.0123456789:=?ABCDEFGHIJKLMNOPQRSTUVWXYZ_abcdefghijklmnopqrstuvwxyz"

Ord(c) == CHOOSE i \in 1..Len(Chars) : SubSeq(Chars, i, i) = c

RECURSIVE StrLess(_, _)
StrLess(a, b) ==
    IF Len(b) = 0 THEN FALSE
    ELSE IF Len(a) = 0 THEN TRUE
    ELSE LET x == Ord(SubSeq(a, 1, 1))
             y == Ord(SubSeq(b, 1, 1))
         IN IF x # y THEN x < y
            ELSE StrLess(SubSeq(a, 2, Len(a)), SubSeq(b, 2, Len(b)))

RECURSIVE StrRepeat(_, _)
StrRepeat(s, n) == IF n <= 0 THEN "" ELSE s \o StrRepeat(s, n - 1)

\* left == right; lists are equal when their items are.  The heap is read as
\* the statement found it: no expression creates or changes a list.
RECURSIVE PyEq(_, _)
PyEq(l, r) ==
    IF IsNumber(l) /\ IsNumber(r)
    THEN NumOf(l)[1] * NumOf(r)[2] = NumOf(r)[1] * NumOf(l)[2]
    ELSE IF l.t = "list" /\ r.t = "list"
    THEN /\ Len(heap[l.ref]) = Len(heap[r.ref])
         /\ \A i \in 1..Len(heap[l.ref]) : PyEq(heap[l.ref][i], heap[r.ref][i])
    ELSE l = r

\* PinLangError.__str__ and PinLangTypeError.__str__: the text printed for an
\* exception (0 stands for a line number that is None)
PinLangError_str(exc) ==
    LET file == IF exc.file_name # None THEN "file " \o exc.file_name.v ELSE ""
        line == IF exc.line_num # 0 THEN ", line " \o IntToStr(exc.line_num) ELSE ""
        text == IF file \o line # ""
                THEN "error, " \o file \o line \o "\nreason: " \o exc.message
                ELSE "error: " \o exc.message
    IN IF exc.cls = "PinLangTypeError" /\ exc.fix_suggestion # None
       THEN text \o "\nsuggested fix: " \o exc.fix_suggestion.v
       ELSE text

\* the least number of the set S of positive numbers, 0 when S is empty
Least(S) == IF S = {} THEN 0 ELSE CHOOSE j \in S : \A k \in S : j <= k

\* the first place where the lists a and b differ, 0 when one is the start of
\* the other
FirstDiffer(a, b) ==
    Least({i \in 1..Len(a) : i <= Len(b) /\ ~PyEq(a[i], b[i])})

\* left < right; a pair Python cannot order raises the host TypeError; lists
\* are ordered by their first differing items (at i), then by length
RECURSIVE PyLess(_, _)
ListLess(a, b, i) ==
    IF i = 0 THEN Ok(BoolV(Len(a) < Len(b))) ELSE PyLess(a[i], b[i])

PyLess(l, r) ==
    IF IsNumber(l) /\ IsNumber(r)
    THEN Ok(BoolV(NumOf(l)[1] * NumOf(r)[2] < NumOf(r)[1] * NumOf(l)[2]))
    ELSE IF l.t = "str" /\ r.t = "str" THEN Ok(BoolV(StrLess(l.v, r.v)))
    ELSE IF l.t = "list" /\ r.t = "list"
    THEN ListLess(heap[l.ref], heap[r.ref], FirstDiffer(heap[l.ref], heap[r.ref]))
    ELSE Raise(HostErr("not supported between instances"))

\* "not g", of a comparison that may have raised
Negated(g) == IF g.ok THEN Ok(BoolV(~g.val.v)) ELSE g

\* the six comparisons of execute_binop and check_condition
Compare(op, l, r) ==
    CASE op = "=" -> Ok(BoolV(PyEq(l, r)))
      [] op = "=!" -> Ok(BoolV(~PyEq(l, r)))
      [] op = "<" -> PyLess(l, r)
      [] op = ">" -> PyLess(r, l)
      [] op = "<=" -> Negated(PyLess(r, l))
      [] op = ">=" -> Negated(PyLess(l, r))

\* left + right, left - right, left * right on numbers
Arith(op, l, r) ==
    LET a == NumOf(l)
        b == NumOf(r)
        asInt == l.t # "float" /\ r.t # "float"
    IN CASE op = "+" -> MkNumber(a[1] * b[2] + b[1] * a[2], a[2] * b[2], asInt)
         [] op = "-" -> MkNumber(a[1] * b[2] - b[1] * a[2], a[2] * b[2], asInt)
         [] op = "*" -> MkNumber(a[1] * b[1], a[2] * b[2], asInt)

\* bool(x): the truth of a value in an if
Truthy(x) ==
    CASE x.t = "bool" -> x.v
      [] x.t = "int" -> x.v # 0
      [] x.t = "float" -> x.v[1] # 0
      [] x.t = "str" -> x.v # ""
      [] x.t = "list" -> heap[x.ref] # <<>>
      [] OTHER -> FALSE

-----------------------------------------------------------------------------
(* execute_node on expression nodes: Ok(value) or the exception raised.    *)

execute_var(node, env) ==
    IF node.var_name \notin DOMAIN env
    THEN Raise(RuntimeErr("undefined variable", node.line_num))
    ELSE Ok(env[node.var_name])

\* divide without the test of the divisor: Python's own ZeroDivisionError
divide_unchecked(node, left, right) ==
    IF NumOf(right)[1] = 0
    THEN Raise([cls |-> "ZeroDivisionError", message |-> "division by zero",
                line_num |-> 0])
    ELSE Ok(MkNumber(NumOf(left)[1] * NumOf(right)[2],
                     NumOf(left)[2] * NumOf(right)[1], FALSE))

\* left / right on numbers: "if right == 0: self.error(...)", then the
\* true division, whose result is a float
divide(node, left, right) ==
    IF NumOf(right)[1] = 0
    THEN Raise(RuntimeErr("division by zero", node.line_num))
    ELSE Ok(MkNumber(NumOf(left)[1] * NumOf(right)[2],
                     NumOf(left)[2] * NumOf(right)[1], FALSE))

execute_binop_values(node, left, right) ==
    CASE node.op = "+" ->
            IF IsNumber(left) /\ IsNumber(right) THEN Ok(Arith("+", left, right))
            ELSE IF left.t = "str" /\ right.t = "str" THEN Ok(StrV(left.v \o right.v))
            ELSE Raise(PinLangTypeError("these types cannot be added", node.line_num,
                                        StrV(FileName),
                                        StrV("convert with zhuanhuan first")))
      [] node.op = "-" ->
            IF IsNumber(left) /\ IsNumber(right) THEN Ok(Arith("-", left, right))
            ELSE Raise(TypeErr("only numbers subtract", node.line_num))
      [] node.op = "*" ->
            IF IsNumber(left) /\ IsNumber(right) THEN Ok(Arith("*", left, right))
            ELSE IF left.t = "str" /\ IsInt(right)
                 THEN Ok(StrV(StrRepeat(left.v, NumOf(right)[1])))
            ELSE IF IsInt(left) /\ right.t = "str"
                 THEN Ok(StrV(StrRepeat(right.v, NumOf(left)[1])))
            ELSE Raise(TypeErr("incompatible types for multiply", node.line_num))
      [] node.op = "/" ->
            IF IsNumber(left) /\ IsNumber(right) THEN divide(node, left, right)
            ELSE Raise(TypeErr("only numbers divide", node.line_num))
      [] node.op \in {">", "<", ">=", "<=", "=", "=!"} ->
            Compare(node.op, left, right)
      [] OTHER -> Raise(RuntimeErr("unsupported operator", node.line_num))

\* the computation goes on with the value of r, unless r is an exception
OnOk(r, K(_)) == IF r.ok THEN K(r.val) ELSE r

RECURSIVE execute_node(_, _)
execute_node(node, env) ==
    CASE node.kind = "LiteralNode" -> Ok(node.value)
      [] node.kind = "VarNode" -> execute_var(node, env)
      [] node.kind = "BinOpNode" ->
            OnOk(execute_node(node.left, env), LAMBDA left :
                OnOk(execute_node(node.right, env), LAMBDA right :
                    execute_binop_values(node, left, right)))
      [] OTHER -> Raise(RuntimeErr("node type not implemented", 0))

-----------------------------------------------------------------------------
(* Text of numbers, as execute_input reads it.                             *)

\* str.isdigit() on ASCII text
IsDigitStr(s) ==
    /\ Len(s) > 0
    /\ \A i \in 1..Len(s) : \E d \in 1..10 : SubSeq(s, i, i) = Digits[d]

\* s.replace('.', '', 1)
RECURSIVE RemoveFirstDot(_)
RemoveFirstDot(s) ==
    IF Len(s) = 0 THEN ""
    ELSE IF SubSeq(s, 1, 1) = "." THEN SubSeq(s, 2, Len(s))
    ELSE SubSeq(s, 1, 1) \o RemoveFirstDot(SubSeq(s, 2, Len(s)))

DigitValue(c) == (CHOOSE d \in 1..10 : Digits[d] = c) - 1

\* int(s) for a string of digits
RECURSIVE ParseNat(_)
ParseNat(s) ==
    IF Len(s) = 0 THEN 0
    ELSE 10 * ParseNat(SubSeq(s, 1, Len(s) - 1)) + DigitValue(SubSeq(s, Len(s), Len(s)))

RECURSIVE Pow10(_)
Pow10(n) == IF n = 0 THEN 1 ELSE 10 * Pow10(n - 1)

\* position of the first '.' of s (0 when there is none)
DotPos(s) ==
    IF \E i \in 1..Len(s) : SubSeq(s, i, i) = "."
    THEN CHOOSE i \in 1..Len(s) :
            /\ SubSeq(s, i, i) = "."
            /\ \A j \in 1..(i - 1) : SubSeq(s, j, j) # "."
    ELSE 0

\* float(s) for digits with one '.'
ParseFloat(s) ==
    MkNumber(ParseNat(RemoveFirstDot(s)), Pow10(Len(s) - DotPos(s)), FALSE)

-----------------------------------------------------------------------------
(* Jump targets.                                                           *)

JumpResult(target_name) == [t |-> "JumpResult", target_name |-> target_name]

IsJumpResult(x) == x.t = "JumpResult"

\* d[k] = v on a dict
Put(d, k, v) == [x \in (DOMAIN d) \cup {k} |-> IF x = k THEN v ELSE d[x]]

\* key in d: the keys of the table are all strings
HasKey(d, key) == key.t = "str" /\ key.v \in DOMAIN d

\* the source lines of the statements stmts and of those in their bodies
RECURSIVE LinesOf(_)
LinesOf(stmts) ==
    UNION {{stmts[k].line_num} \cup
           (CASE stmts[k].kind = "IfNode" ->
                    LinesOf(stmts[k].body) \cup LinesOf(stmts[k].else_body)
              [] stmts[k].kind = "LoopNode" -> LinesOf(stmts[k].body)
              [] OTHER -> {}) : k \in 1..Len(stmts)}

\* ScanTargets entering, for a statement, also the lines of the statements
\* inside its bodies, all under the statement's own index
RECURSIVE ScanTargets_nested(_, _, _, _)
ScanTargets_nested(statements, idx, shuru_count, targets) ==
    IF idx >= Len(statements) THEN targets
    ELSE LET stmt == statements[idx + 1]
             t1 == IF stmt.kind = "LabelNode"
                   THEN Put(targets, stmt.label_name, idx)
                   ELSE targets
             t2 == IF stmt.kind = "InputNode"
                   THEN Put(t1, "shuru_" \o IntToStr(shuru_count), idx)
                   ELSE t1
             keys == {"hang_" \o IntToStr(n) : n \in LinesOf(<<stmt>>)}
             t3 == [x \in (DOMAIN t2) \cup keys |->
                        IF x \in keys THEN idx ELSE t2[x]]
         IN ScanTargets_nested(statements, idx + 1,
                               IF stmt.kind = "InputNode" THEN shuru_count + 1
                               ELSE shuru_count,
                               t3)

\* the table after the statements from index idx (0-based) on are scanned
RECURSIVE ScanTargets(_, _, _, _)
ScanTargets(statements, idx, shuru_count, targets) ==
    IF idx >= Len(statements) THEN targets
    ELSE LET stmt == statements[idx + 1]
             t1 == IF stmt.kind = "LabelNode"
                   THEN Put(targets, stmt.label_name, idx)
                   ELSE targets
             t2 == IF stmt.kind = "InputNode"
                   THEN Put(t1, "shuru_" \o IntToStr(shuru_count), idx)
                   ELSE t1
             t3 == Put(t2, "hang_" \o IntToStr(stmt.line_num), idx)
         IN ScanTargets(statements, idx + 1,
                        IF stmt.kind = "InputNode" THEN shuru_count + 1
                        ELSE shuru_count,
                        t3)

EmptyDict == [x \in {} |-> 0]

BuildJumpTargets(statements) == ScanTargets(statements, 0, 0, EmptyDict)

\* execute_jump: the JumpResult, or the exception raised
execute_jump(node) ==
    IF node.file_name # "current"
    THEN Raise(PinLangRuntimeError("cross-file jump not supported", node.line_num, None))
    ELSE CASE node.target_type = "label" -> Ok(JumpResult(node.target_value))
           [] node.target_type = "hang" ->
                Ok(JumpResult(StrV("hang_" \o IntToStr(node.target_value.v))))
           [] node.target_type = "shuru" ->
                Ok(JumpResult(StrV("shuru_" \o IntToStr(node.target_value.v))))
           [] OTHER -> Raise(PinLangRuntimeError("unknown jump type", node.line_num, None))

-----------------------------------------------------------------------------
(* The interpreter's configuration: the part of the state a statement's    *)
(* execution reads and writes.                                             *)

max_iterations == 1000

loop_max_iterations == 10000

Conf ==
    [variables |-> variables, heap |-> heap, stack |-> stack, phase |-> phase,
     retval |-> retval, cur |-> cur, error |-> error, stdout |-> stdout,
     warned |-> warned, hist |-> hist]

\* a callee returns val to its caller
Returned(c, val) == [c EXCEPT !.phase = "ret", !.retval = val]

\* an exception that is printed while the run goes on with the next statement
Thrown_goes_on(c, exc) ==
    [c EXCEPT !.phase = "ret", !.retval = None, !.cur = None, !.error = exc,
              !.stdout = [kind |-> "error", val |-> exc]]

\* an exception leaves every active execute_if / execute_loop and reaches
\* interpret's except clauses, which print it and break
Thrown(c, exc) ==
    [c EXCEPT !.phase = "exit", !.stack = <<>>, !.retval = None,
              !.cur = None, !.error = exc,
              !.stdout = [kind |-> "error", val |-> exc]]

Printed(val) == [kind |-> "print", val |-> val]

\* one active call of execute_if or execute_loop: the for loop is at body[i];
\* completed counts the passes over the body that ran to their end
Frame(node, body, loop_count) ==
    [node |-> node, body |-> body, i |-> 1, iteration_count |-> 0,
     loop_count |-> loop_count, completed |-> 0]

\* what print shows of a value: a list is shown with its items as they are
RECURSIVE Shown(_, _)
Shown(h, x) ==
    IF x.t = "list"
    THEN [t |-> "list", items |-> [i \in 1..Len(h[x.ref]) |-> Shown(h, h[x.ref][i])]]
    ELSE x

\* the statement goes on with the value of r, or raises r's exception
Try(c, r, K(_)) == IF r.ok THEN K(r.val) ELSE Thrown(c, r.exc)

execute_print(node, c) ==
    LET r == execute_node(node.value, c.variables)
    IN IF r.ok
       THEN Returned([c EXCEPT !.stdout = Printed(Shown(c.heap, r.val))], None)
       ELSE Thrown(c, RuntimeErr("print error: " \o r.exc.message, node.line_num))

execute_var_decl(node, c) ==
    Try(c, execute_node(node.value, c.variables), LAMBDA value :
        Returned([c EXCEPT !.variables = Put(@, node.var_name, value)], None))

\* the TypeError of an operator is raised again as calculate's own
calculate_error(node, exc) ==
    IF exc.cls = "TypeError"
    THEN TypeErr("calculate error: " \o exc.message, node.line_num)
    ELSE exc

execute_calculate(node, c) ==
    LET r == execute_node(node.expr, c.variables)
    IN IF r.ok
       THEN Returned([c EXCEPT !.variables = Put(@, node.target_var, r.val)], None)
       ELSE Thrown(c, calculate_error(node, r.exc))

\* the digits of the fraction r/d (0 <= r < d), at most k of them
RECURSIVE FractionDigits(_, _, _)
FractionDigits(r, d, k) ==
    IF r = 0 \/ k = 0 THEN ""
    ELSE Digits[((10 * r) \div d) + 1] \o FractionDigits((10 * r) % d, d, k - 1)

\* str(x) for the float n/d in the range Python writes without an exponent;
\* a fraction that does not end is cut at 16 digits
FloatToStr(n, d) ==
    (IF n < 0 THEN "-" ELSE "") \o NatToStr(Abs(n) \div d) \o "." \o
    (IF Abs(n) % d = 0 THEN "0" ELSE FractionDigits(Abs(n) % d, d, 16))

\* str(x), and repr(x) for the items of a list (quoted |-> TRUE)
RECURSIVE PyStr(_, _, _)
PyStr(h, x, quoted) ==
    CASE x.t = "bool" -> IF x.v THEN "True" ELSE "False"
      [] x.t = "int" -> IntToStr(x.v)
      [] x.t = "float" -> FloatToStr(x.v[1], x.v[2])
      [] x.t = "str" -> IF quoted THEN "'" \o x.v \o "'" ELSE x.v
      [] x.t = "list" ->
            LET items == h[x.ref]
                joined[i \in 0..Len(items)] ==
                    IF i = 0 THEN ""
                    ELSE joined[i - 1] \o (IF i > 1 THEN ", " ELSE "")
                         \o PyStr(h, items[i], TRUE)
            IN "[" \o joined[Len(items)] \o "]"

\* the 'shuzi' branch of execute_convert
convert_to_number(node, value) ==
    IF value.t = "str"
    THEN IF IsDigitStr(value.v) THEN Ok(IntV(ParseNat(value.v)))
         ELSE IF IsDigitStr(RemoveFirstDot(value.v)) THEN Ok(ParseFloat(value.v))
         ELSE Raise(RuntimeErr("cannot convert the string to a number",
                               node.line_num))
    ELSE IF IsNumber(value)
    THEN Ok(IF NumOf(value)[2] = 1 THEN IntV(NumOf(value)[1]) ELSE value)
    ELSE Raise(HostErr("float() argument must be a string or a number"))

execute_convert(node, c) ==
    IF node.value \notin DOMAIN c.variables
    THEN Thrown(c, RuntimeErr("undefined variable", node.line_num))
    ELSE Try(c, CASE node.type_name = "shuzi" ->
                        convert_to_number(node, c.variables[node.value])
                  [] node.type_name = "zifu" ->
                        Ok(StrV(PyStr(c.heap, c.variables[node.value], FALSE)))
                  [] OTHER -> Raise(RuntimeErr("unknown type name", node.line_num)),
             LAMBDA converted :
                 Returned([c EXCEPT !.variables = Put(@, node.target_var, converted)],
                          None))

\* [self.execute_node(value) for value in values]: the values in order, or
\* the first exception
RECURSIVE execute_values(_, _)
execute_values(values, env) ==
    IF values = <<>> THEN Ok(<<>>)
    ELSE OnOk(execute_node(values[1], env), LAMBDA first :
             OnOk(execute_values(Tail(values), env), LAMBDA rest :
                 Ok(<<first>> \o rest)))

\* a new list object is bound to var_name
execute_list_create(node, c) ==
    Try(c, execute_values(node.values, c.variables), LAMBDA items :
        Returned([c EXCEPT !.heap = Append(@, items),
                           !.variables = Put(@, node.var_name,
                                             ListV(Len(c.heap) + 1))], None))

\* index_value is an index of lst: 0 <= index < len(lst)
list_index_in(node, lst, index_value) ==
    IF ~IsInt(index_value)
    THEN Raise(RuntimeErr("list index must be an integer", node.line_num))
    ELSE IF NumOf(index_value)[1] < 0 \/ NumOf(index_value)[1] >= Len(lst)
    THEN Raise(RuntimeErr("list index out of range", node.line_num))
    ELSE Ok(NumOf(index_value)[1])

\* the checks execute_list_get and execute_list_edit share: Ok(index) with
\* 0 <= index < len(lst), or the exception raised
list_index(node, c) ==
    IF node.list_name \notin DOMAIN c.variables
    THEN Raise(RuntimeErr("undefined list", node.line_num))
    ELSE IF c.variables[node.list_name].t # "list"
    THEN Raise(RuntimeErr("not a list", node.line_num))
    ELSE OnOk(IF IsAST(node.index) THEN execute_node(node.index, c.variables)
              ELSE Ok(node.index),
              LAMBDA index_value :
                  list_index_in(node, c.heap[c.variables[node.list_name].ref],
                                index_value))

execute_list_get(node, c) ==
    Try(c, list_index(node, c), LAMBDA index :
        Returned([c EXCEPT !.variables =
                               Put(@, node.target_var,
                                   c.heap[c.variables[node.list_name].ref][index + 1]),
                           !.hist.get = [list_name |-> node.list_name,
                                         index |-> index]],
                 None))

\* the history notes a successful edit
NotingEdit(c, node, ref, index, value) ==
    [c EXCEPT !.hist.edit = [list_name |-> node.list_name, ref |-> ref,
                             index |-> index, value |-> value]]

\* lst[index] = value, on the list object var_name refers to
list_store(node, c, ref, index, value) ==
    Returned(NotingEdit([c EXCEPT !.heap[ref][index + 1] = value],
                        node, ref, index, value), None)

\* lst[index] = value, stored one item further on
list_store_shifted(node, c, ref, index, value) ==
    Returned(NotingEdit([c EXCEPT !.heap[ref][((index + 1) % Len(c.heap[ref])) + 1]
                                      = value],
                        node, ref, index, value), None)

\* execute_list_edit evaluating the value before it checks the index
execute_list_edit_value_first(node, c) ==
    Try(c, execute_node(node.value, c.variables), LAMBDA value :
        Try(c, list_index(node, c), LAMBDA index :
            list_store(node, c, c.variables[node.list_name].ref, index, value)))

\* execute_list_edit storing the value one item further on
execute_list_edit_shifted(node, c) ==
    Try(c, list_index(node, c), LAMBDA index :
        Try(c, execute_node(node.value, c.variables), LAMBDA value :
            list_store_shifted(node, c, c.variables[node.list_name].ref,
                               index, value)))

\* the item is replaced in the list object, so through every reference to it
execute_list_edit(node, c) ==
    Try(c, list_index(node, c), LAMBDA index :
        Try(c, execute_node(node.value, c.variables), LAMBDA value :
            list_store(node, c, c.variables[node.list_name].ref, index, value)))

\* execute_if up to its for loop: the condition picks the body
execute_if(node, c) ==
    LET r == execute_node(node.condition, c.variables)
    IN IF ~r.ok THEN Thrown(c, r.exc)
       ELSE [c EXCEPT !.phase = "body",
                      !.stack = Append(@, Frame(node,
                                    IF Truthy(r.val) THEN node.body
                                    ELSE node.else_body, 0))]

\* int(x) for a number: truncation towards zero
PyInt(x) ==
    LET n == NumOf(x)[1]
        d == NumOf(x)[2]
    IN IF n >= 0 THEN n \div d ELSE -((-n) \div d)

\* execute_loop up to its while loop: the loop count is resolved once
loop_count_of(node, env) ==
    IF node.count = None THEN Ok(0)
    ELSE IF ~IsAST(node.count) THEN Ok(PyInt(node.count))
    ELSE LET r == execute_node(node.count, env)
         IN IF ~r.ok THEN r
            ELSE IF IsNumber(r.val) THEN Ok(PyInt(r.val))
            ELSE Raise(RuntimeErr("loop count must be a number", node.line_num))

execute_loop(node, c) ==
    LET r == loop_count_of(node, c.variables)
    IN IF ~r.ok THEN Thrown(c, r.exc)
       ELSE [c EXCEPT !.phase = "test",
                      !.stack = Append(@, Frame(node, node.body, r.val))]

execute_jump_statement(node, c) ==
    LET r == execute_jump(node)
    IN IF r.ok THEN Returned(c, r.val) ELSE Thrown(c, r.exc)

\* execute_input up to its first input() call
execute_input(node, c) == [c EXCEPT !.phase = "input", !.cur = node]

\* execute_statement(stmt), from the configuration c
execute_statement(stmt, c) ==
    CASE stmt.kind = "PrintNode" -> execute_print(stmt, c)
      [] stmt.kind = "VarDeclNode" -> execute_var_decl(stmt, c)
      [] stmt.kind = "ListCreateNode" -> execute_list_create(stmt, c)
      [] stmt.kind = "ListGetNode" -> execute_list_get(stmt, c)
      [] stmt.kind = "ListEditNode" -> execute_list_edit(stmt, c)
      [] stmt.kind = "CalculateNode" -> execute_calculate(stmt, c)
      [] stmt.kind = "ConvertNode" -> execute_convert(stmt, c)
      [] stmt.kind = "IfNode" -> execute_if(stmt, c)
      [] stmt.kind = "LoopNode" -> execute_loop(stmt, c)
      [] stmt.kind = "InputNode" -> execute_input(stmt, c)
      [] stmt.kind = "JumpNode" -> execute_jump_statement(stmt, c)
      [] OTHER -> Returned(c, None)

-----------------------------------------------------------------------------
(* execute_loop's while loop.                                              *)

\* "node.variable is None or node.condition is None or node.value is None"
CountOnly(node) ==
    node.variable = None \/ node.condition = None \/ node.value = None

\* check_condition looking the count variable up again at every test
check_condition_rereads(f, env) ==
    LET node == f.node
    IN IF CountOnly(node)
       THEN IF IsAST(node.count)
            THEN LET r == execute_node(node.count, env)
                 IN IF r.ok THEN Ok(BoolV(f.iteration_count < PyInt(r.val))) ELSE r
            ELSE Ok(BoolV(f.iteration_count < f.loop_count))
       ELSE IF node.variable.v \notin DOMAIN env
       THEN Raise(RuntimeErr("undefined loop variable", node.line_num))
       ELSE LET cv == IF IsAST(node.value) THEN execute_node(node.value, env)
                      ELSE Ok(node.value)
            IN IF ~cv.ok THEN cv
               ELSE IF node.condition.v \in {"=", "=!", ">", "<", ">=", "<="}
               THEN Compare(node.condition.v, env[node.variable.v], cv.val)
               ELSE Raise(RuntimeErr("unknown loop condition", node.line_num))

\* check_condition() for the loop of frame f: Ok(boolean) or the exception
check_condition(f, env) ==
    LET node == f.node
    IN IF CountOnly(node) THEN Ok(BoolV(f.iteration_count < f.loop_count))
       ELSE IF node.variable.v \notin DOMAIN env
       THEN Raise(RuntimeErr("undefined loop variable", node.line_num))
       ELSE LET cv == IF IsAST(node.value) THEN execute_node(node.value, env)
                      ELSE Ok(node.value)
            IN IF ~cv.ok THEN cv
               ELSE IF node.condition.v \in {"=", "=!", ">", "<", ">=", "<="}
               THEN Compare(node.condition.v, env[node.variable.v], cv.val)
               ELSE Raise(RuntimeErr("unknown loop condition", node.line_num))

Front(stk) == SubSeq(stk, 1, Len(stk) - 1)

\* the code after the while loop: the warning, then return None
loop_exit(c) ==
    LET f == c.stack[Len(c.stack)]
        c1 == IF f.iteration_count >= loop_max_iterations
              THEN [c EXCEPT !.stdout = [kind |-> "warning", val |-> None],
                             !.warned = @ \cup {"loop"}]
              ELSE c
    IN Returned([c1 EXCEPT !.stack = Front(@),
                           !.hist.last_loop =
                               [node |-> f.node, loop_count |-> f.loop_count,
                                iteration_count |-> f.iteration_count,
                                completed |-> f.completed]],
                None)

\* loop_test that still enters the body when the cap has been reached
loop_test_inclusive(c) ==
    LET n == Len(c.stack)
        f == c.stack[n]
        r == check_condition(f, c.variables)
    IN IF ~r.ok THEN Thrown(c, r.exc)
       ELSE IF Truthy(r.val) /\ f.iteration_count <= loop_max_iterations
       THEN [c EXCEPT !.phase = "body",
                      !.stack[n].iteration_count = @ + 1,
                      !.stack[n].i = 1]
       ELSE loop_exit(c)

\* the while test: enter the body once more, or leave the loop
loop_test(c) ==
    LET n == Len(c.stack)
        f == c.stack[n]
        r == check_condition(f, c.variables)
    IN IF ~r.ok THEN Thrown(c, r.exc)
       ELSE IF Truthy(r.val) /\ f.iteration_count < loop_max_iterations
       THEN [c EXCEPT !.phase = "body",
                      !.stack[n].iteration_count = @ + 1,
                      !.stack[n].i = 1]
       ELSE loop_exit(c)

\* the for loop over the body has run out of statements
body_end(c) ==
    LET n == Len(c.stack)
        f == c.stack[n]
        c1 == [c EXCEPT !.stack[n].completed = @ + 1]
    IN IF f.node.kind = "IfNode" THEN Returned([c EXCEPT !.stack = Front(@)], None)
       ELSE IF CountOnly(f.node) /\ f.iteration_count >= f.loop_count
       THEN loop_exit(c1)
       ELSE [c1 EXCEPT !.phase = "test"]

\* body_return with a Loop that goes on with its body after a JumpResult
body_return_loop_goes_on(c) ==
    IF IsJumpResult(c.retval) /\ c.stack[Len(c.stack)].node.kind = "IfNode"
    THEN [c EXCEPT !.stack = Front(@)]
    ELSE [c EXCEPT !.phase = "body", !.retval = None,
                   !.stack[Len(c.stack)].i = @ + 1]

\* execute_if / execute_loop receive the result of a body statement
body_return(c) ==
    IF IsJumpResult(c.retval)
    THEN [c EXCEPT !.stack = Front(@)]
    ELSE [c EXCEPT !.phase = "body", !.retval = None,
                   !.stack[Len(c.stack)].i = @ + 1]

-----------------------------------------------------------------------------
(* The lexer (core/lexer.py).  Source texts are ASCII; positions in a text *)
(* are 1-based here, 0-based in the code.                                 *)

SyntaxErr(message, line_num) ==
    [cls |-> "PinLangSyntaxError", message |-> message, line_num |-> line_num,
     file_name |-> StrV(FileName)]

Token(type, value, line_num) ==
    [type |-> type, value |-> value, line_num |-> line_num]

Lexer_keywords ==
    [w \in {"dayin", "dy", "bianliang", "bl", "liebiao", "chuangjian", "huoqu",
            "bianji", "bianhao", "chuandi", "jisuan", "zhuanhuan", "shuzi",
            "zifu", "panduan", "fouze", "shuru", "jin", "tiao", "ciwenjian",
            "hang", "xunhuan", "cishu"} |->
        CASE w = "dayin" -> "PRINT"
          [] w = "dy" -> "PRINT_SHORT"
          [] w = "bianliang" -> "VAR_DEFINE"
          [] w = "bl" -> "VAR_DEFINE_SHORT"
          [] w = "liebiao" -> "LIST"
          [] w = "chuangjian" -> "CREATE"
          [] w = "huoqu" -> "GET"
          [] w = "bianji" -> "EDIT"
          [] w = "bianhao" -> "INDEX"
          [] w = "chuandi" -> "PASS"
          [] w = "jisuan" -> "CALCULATE"
          [] w = "zhuanhuan" -> "CONVERT"
          [] w = "shuzi" -> "NUMBER_TYPE"
          [] w = "zifu" -> "STRING_TYPE"
          [] w = "panduan" -> "IF"
          [] w = "fouze" -> "ELSE"
          [] w = "shuru" -> "INPUT"
          [] w = "jin" -> "RESTRICT"
          [] w = "tiao" -> "JUMP"
          [] w = "ciwenjian" -> "CURRENT_FILE"
          [] w = "hang" -> "LINE"
          [] w = "xunhuan" -> "LOOP"
          [] w = "cishu" -> "LOOP_COUNT"]

CharAt(text, i) == SubSeq(text, i, i)

CharsOf(s) == {SubSeq(s, i, i) : i \in 1..Len(s)}

\* str.isspace(), str.isdigit(), str.isalpha() on one ASCII character
SpaceChars == {" ", "\t", "\r"}
DigitChars == CharsOf("0123456789")
AlphaChars == CharsOf("abcdefghijklmnopqrstuvwxyzABCDEFGHIJKLMNOPQRSTUVWXYZ")

\* the tokens of one character, and the three that may take a second one
Lexer_symbols ==
    [c \in CharsOf("+-*/()[],:") |->
        CASE c = "+" -> "PLUS" [] c = "-" -> "MINUS" [] c = "*" -> "MULTIPLY"
          [] c = "/" -> "DIVIDE" [] c = "(" -> "LPAREN" [] c = ")" -> "RPAREN"
          [] c = "[" -> "LBRACKET" [] c = "]" -> "RBRACKET"
          [] c = "," -> "COMMA" [] c = ":" -> "COLON"]

\* the position the lexer is at after advancing from i while the current
\* character is in chars
RECURSIVE Lexer_advance_while(_, _, _)
Lexer_advance_while(text, i, chars) ==
    IF i <= Len(text) /\ CharAt(text, i) \in chars
    THEN Lexer_advance_while(text, i + 1, chars)
    ELSE i

\* string(), from the opening quote at i: the token and the position after
\* the closing quote, or the error of a string that is not closed on its line
RECURSIVE Lexer_string_end(_, _, _)
Lexer_string_end(text, i, quote_char) ==
    IF i <= Len(text) /\ CharAt(text, i) \notin {quote_char, "\n"}
    THEN Lexer_string_end(text, i + 1, quote_char)
    ELSE i

Lexer_string(text, i, line_num) ==
    LET e == Lexer_string_end(text, i + 1, CharAt(text, i))
    IN IF e <= Len(text) /\ CharAt(text, e) = CharAt(text, i)
       THEN [ok |-> TRUE,
             val |-> Token("STRING", StrV(SubSeq(text, i + 1, e - 1)), line_num),
             pos |-> e + 1]
       ELSE Raise(SyntaxErr("unclosed string", line_num))

\* identifier(): a keyword or an ID
Lexer_identifier(text, i, line_num) ==
    LET e == Lexer_advance_while(text, i, AlphaChars \cup DigitChars \cup {"_"})
        word == SubSeq(text, i, e - 1)
    IN [ok |-> TRUE,
        val |-> Token(IF word \in DOMAIN Lexer_keywords THEN Lexer_keywords[word]
                      ELSE "ID", StrV(word), line_num),
        pos |-> e]

\* number(): digits, then possibly a '.' and more digits
Lexer_number(text, i, line_num) ==
    LET e == Lexer_advance_while(text, i, DigitChars)
    IN IF e <= Len(text) /\ CharAt(text, e) = "."
       THEN LET f == Lexer_advance_while(text, e + 1, DigitChars)
            IN [ok |-> TRUE,
                val |-> Token("FLOAT", ParseFloat(SubSeq(text, i, f - 1)), line_num),
                pos |-> f]
       ELSE [ok |-> TRUE,
             val |-> Token("INTEGER", IntV(ParseNat(SubSeq(text, i, e - 1))), line_num),
             pos |-> e]

\* the token of the operator or punctuation at i
Lexer_symbol(text, i, line_num) ==
    LET c == CharAt(text, i)
        next == IF i < Len(text) THEN CharAt(text, i + 1) ELSE ""
        two(type, value) == [ok |-> TRUE, val |-> Token(type, StrV(value), line_num),
                             pos |-> i + 2]
        one(type, value) == [ok |-> TRUE, val |-> Token(type, StrV(value), line_num),
                             pos |-> i + 1]
    IN CASE c = "=" -> IF next = "!" THEN two("NOT_EQUALS", "=!") ELSE one("EQUALS", "=")
         [] c = ">" -> IF next = "=" THEN two("GE", ">=") ELSE one("GT", ">")
         [] c = "<" -> IF next = "=" THEN two("LE", "<=") ELSE one("LT", "<")
         [] c \in DOMAIN Lexer_symbols -> one(Lexer_symbols[c], c)
         [] OTHER -> Raise(SyntaxErr("unrecognized character: " \o c, line_num))

\* get_next_token() within one line of the text, from position i: the next
\* token with the position after it, EOF at the end of the line or at a
\* comment, or the lexical error
Lexer_get_next_token(line, i, line_num) ==
    LET j == Lexer_advance_while(line, i, SpaceChars)
        c == CharAt(line, j)
    IN IF j > Len(line) \/ c = "#"
       THEN [ok |-> TRUE, val |-> Token("EOF", None, line_num), pos |-> Len(line) + 1]
       ELSE IF c \in AlphaChars \cup {"_"} THEN Lexer_identifier(line, j, line_num)
       ELSE IF c \in DigitChars THEN Lexer_number(line, j, line_num)
       ELSE IF c \in {"\"", "'"} THEN Lexer_string(line, j, line_num)
       ELSE Lexer_symbol(line, j, line_num)

\* the tokens of one line from position i on, or the first lexical error
RECURSIVE Lexer_line_tokens(_, _, _)
Lexer_line_tokens(line, i, line_num) ==
    LET t == Lexer_get_next_token(line, i, line_num)
    IN IF ~t.ok THEN t
       ELSE IF t.val.type = "EOF" THEN Ok(<<>>)
       ELSE LET rest == Lexer_line_tokens(line, t.pos, line_num)
            IN IF ~rest.ok THEN rest ELSE Ok(<<t.val>> \o rest.val)

\* the positions of the newlines of text, and its k-th line; no token spans
\* two lines (a string is not closed by the end of its line, a comment ends
\* with it), and line_num counts the newlines passed
Newlines(text) == {i \in 1..Len(text) : CharAt(text, i) = "\n"}

LineOf(text, k) ==
    LET nl == Newlines(text)
        nth(n) == CHOOSE i \in nl : Cardinality({j \in nl : j <= i}) = n
        first == IF k = 1 THEN 1 ELSE nth(k - 1) + 1
        last == IF k > Cardinality(nl) THEN Len(text) ELSE nth(k) - 1
    IN SubSeq(text, first, last)

RECURSIVE Lexer_lines(_, _, _)
Lexer_lines(text, k, count) ==
    IF k > count THEN Ok(<<Token("EOF", None, count)>>)
    ELSE LET line == Lexer_line_tokens(LineOf(text, k), 1, k)
         IN IF ~line.ok THEN line
            ELSE LET rest == Lexer_lines(text, k + 1, count)
                 IN IF ~rest.ok THEN rest ELSE Ok(line.val \o rest.val)

\* tokenize(): every token up to and with EOF, or the first lexical error
tokenize(text) == Lexer_lines(text, 1, Cardinality(Newlines(text)) + 1)

-----------------------------------------------------------------------------
(* The parser (core/parser.py) as functions of the token list and the     *)
(* position pos (0-based, as in the code).  A parsing function returns    *)
(* the node with the position after it, or the syntax error raised with   *)
(* the position it was raised at.                                         *)

\* the token kinds a statement starts with
StatementStarts ==
    {"PRINT", "PRINT_SHORT", "VAR_DEFINE", "VAR_DEFINE_SHORT", "LIST",
     "CALCULATE", "CONVERT", "IF", "INPUT", "JUMP", "LOOP"}

\* self.current_token: the token at pos, and still the final EOF token once
\* pos has run past it
current_token(toks, at) ==
    toks[(IF at < Len(toks) THEN at ELSE Len(toks) - 1) + 1]

Parsed(node, at) == [ok |-> TRUE, node |-> node, pos |-> at]

\* Parser.error: the syntax error carries the line of the current token
Parser_error(toks, at, message) ==
    [ok |-> FALSE, pos |-> at,
     exc |-> SyntaxErr(message, current_token(toks, at).line_num)]

\* eat: the token consumed, or the error
eat(toks, at, token_type) ==
    IF current_token(toks, at).type = token_type
    THEN Parsed(current_token(toks, at), at + 1)
    ELSE Parser_error(toks, at, "expected " \o token_type \o ", got "
                                     \o current_token(toks, at).type)

\* a run of eat calls, one per kind of token_types
RECURSIVE eat_each(_, _, _)
eat_each(toks, at, token_types) ==
    IF token_types = <<>> THEN Parsed(None, at)
    ELSE LET r == eat(toks, at, token_types[1])
         IN IF ~r.ok THEN r ELSE eat_each(toks, r.pos, Tail(token_types))

\* the parse goes on from the result r, unless r is an error
Then(r, K(_)) == IF r.ok THEN K(r) ELSE r

RECURSIVE expr(_, _)

factor(toks, at) ==
    LET token == current_token(toks, at)
    IN CASE token.type = "LPAREN" ->
                Then(expr(toks, at + 1), LAMBDA e :
                    Then(eat(toks, e.pos, "RPAREN"), LAMBDA r :
                        Parsed(e.node, r.pos)))
         [] token.type \in {"INTEGER", "FLOAT", "STRING"} ->
                Parsed(LiteralNode(token.value, token.line_num), at + 1)
         [] token.type = "ID" ->
                Parsed(VarNode(token.value.v, token.line_num), at + 1)
         [] OTHER ->
                Parser_error(toks, at, "invalid expression: " \o
                    (IF token.value = None THEN "None" ELSE token.value.v))

\* the while loops of term, add and comparison: operators of the level
\* token_types, each followed by an operand
RECURSIVE term_rest(_, _, _)
term_rest(toks, at, node) ==
    LET token == current_token(toks, at)
    IN IF token.type \notin {"MULTIPLY", "DIVIDE"}
       THEN Parsed(node, at)
       ELSE Then(factor(toks, at + 1), LAMBDA r :
                term_rest(toks, r.pos,
                    BinOpNode(node, token.value.v, r.node, token.line_num)))

term(toks, at) ==
    Then(factor(toks, at), LAMBDA r : term_rest(toks, r.pos, r.node))

RECURSIVE add_rest(_, _, _)
add_rest(toks, at, node) ==
    LET token == current_token(toks, at)
    IN IF token.type \notin {"PLUS", "MINUS"}
       THEN Parsed(node, at)
       ELSE Then(term(toks, at + 1), LAMBDA r :
                add_rest(toks, r.pos,
                    BinOpNode(node, token.value.v, r.node, token.line_num)))

add(toks, at) ==
    Then(term(toks, at), LAMBDA r : add_rest(toks, r.pos, r.node))

RECURSIVE comparison_rest(_, _, _)
comparison_rest(toks, at, node) ==
    LET token == current_token(toks, at)
    IN IF token.type \notin {"GT", "LT", "GE", "LE", "EQUALS", "NOT_EQUALS"}
       THEN Parsed(node, at)
       ELSE Then(add(toks, at + 1), LAMBDA r :
                comparison_rest(toks, r.pos,
                    BinOpNode(node, token.value.v, r.node, token.line_num)))

comparison(toks, at) ==
    Then(add(toks, at), LAMBDA r : comparison_rest(toks, r.pos, r.node))

expr(toks, at) == comparison(toks, at)

\* a value position: a STRING, INTEGER or FLOAT token alone is a literal of
\* the statement's line, anything else is an expression
literal_or_expr(toks, at, line_num) ==
    LET token == current_token(toks, at)
    IN IF token.type \in {"STRING", "INTEGER", "FLOAT"}
       THEN Parsed(LiteralNode(token.value, line_num), at + 1)
       ELSE expr(toks, at)

print_statement(toks, at) ==
    LET line_num == current_token(toks, at).line_num
        token == current_token(toks, at + 2)
    IN IF current_token(toks, at + 1).type # "LPAREN"
       THEN Parser_error(toks, at + 1, "print needs a left parenthesis")
       ELSE Then(IF token.type = "ID"
                 THEN Parsed(VarNode(token.value.v, line_num), at + 3)
                 ELSE literal_or_expr(toks, at + 2, line_num),
                 LAMBDA value :
                     IF current_token(toks, value.pos).type = "RPAREN"
                     THEN Parsed(PrintNode(value.node, line_num), value.pos + 1)
                     ELSE Parser_error(toks, value.pos,
                                       "print needs a right parenthesis"))

var_define_statement(toks, at) ==
    LET line_num == current_token(toks, at).line_num
        var_name == current_token(toks, at + 1).value
    IN Then(eat_each(toks, at + 1, <<"ID", "EQUALS">>), LAMBDA r :
           Then(literal_or_expr(toks, r.pos, line_num), LAMBDA value :
               Parsed(VarDeclNode(var_name.v, value.node, line_num), value.pos)))

\* the values of a list up to its closing bracket
RECURSIVE list_values(_, _, _, _)
list_values(toks, at, line_num, values) ==
    Then(literal_or_expr(toks, at, line_num), LAMBDA value :
        IF current_token(toks, value.pos).type = "COMMA"
        THEN list_values(toks, value.pos + 1, line_num, Append(values, value.node))
        ELSE Then(eat(toks, value.pos, "RBRACKET"), LAMBDA r :
                 Parsed(Append(values, value.node), r.pos)))

list_create_statement(toks, at) ==
    LET line_num == current_token(toks, at).line_num
        list_name == current_token(toks, at + 2).value
    IN Then(eat_each(toks, at, <<"LIST", "CREATE", "ID", "EQUALS", "LBRACKET">>),
            LAMBDA r :
                IF current_token(toks, r.pos).type = "RBRACKET"
                THEN Parsed(ListCreateNode(list_name.v, <<>>, line_num), r.pos + 1)
                ELSE Then(list_values(toks, r.pos, line_num, <<>>), LAMBDA values :
                         Parsed(ListCreateNode(list_name.v, values.node, line_num),
                                values.pos)))

\* "bianhao = " and the index: an INTEGER token's value, or an expression
list_index_part(toks, at) ==
    Then(eat_each(toks, at, <<"INDEX", "EQUALS">>), LAMBDA r :
        IF current_token(toks, r.pos).type = "INTEGER"
        THEN Parsed(current_token(toks, r.pos).value, r.pos + 1)
        ELSE expr(toks, r.pos))

list_get_statement(toks, at) ==
    LET line_num == current_token(toks, at).line_num
        list_name == current_token(toks, at + 2).value
    IN Then(eat_each(toks, at, <<"LIST", "GET", "ID">>), LAMBDA r :
           Then(list_index_part(toks, r.pos), LAMBDA index :
               Then(eat_each(toks, index.pos,
                             <<"PASS", "VAR_DEFINE", "EQUALS", "ID">>),
                    LAMBDA q :
                        Parsed(ListGetNode(list_name.v, index.node,
                                   current_token(toks, index.pos + 3).value.v,
                                   line_num), q.pos))))

\* the value of a list edit: zifu('text'), shuzi(number or expression), or
\* an expression
list_edit_value(toks, at, line_num) ==
    LET token == current_token(toks, at)
    IN CASE token.type = "STRING_TYPE" ->
                Then(eat_each(toks, at + 1, <<"LPAREN", "STRING", "RPAREN">>),
                     LAMBDA r :
                         Parsed(LiteralNode(current_token(toks, at + 2).value,
                                            line_num), r.pos))
         [] token.type = "NUMBER_TYPE" ->
                Then(eat(toks, at + 1, "LPAREN"), LAMBDA r :
                    Then(IF current_token(toks, r.pos).type \in {"INTEGER", "FLOAT"}
                         THEN Parsed(LiteralNode(current_token(toks, r.pos).value,
                                                 line_num), r.pos + 1)
                         ELSE expr(toks, r.pos),
                         LAMBDA value :
                             Then(eat(toks, value.pos, "RPAREN"), LAMBDA q :
                                 Parsed(value.node, q.pos))))
         [] OTHER -> expr(toks, at)

list_edit_statement(toks, at) ==
    LET line_num == current_token(toks, at).line_num
        list_name == current_token(toks, at + 2).value
    IN Then(eat_each(toks, at, <<"LIST", "EDIT", "ID">>), LAMBDA r :
           Then(list_index_part(toks, r.pos), LAMBDA index :
               Then(eat(toks, index.pos, "PASS"), LAMBDA q :
                   Then(list_edit_value(toks, q.pos, line_num), LAMBDA value :
                       Parsed(ListEditNode(list_name.v, index.node, value.node,
                                           line_num), value.pos)))))

\* an operand of calculate: a number token is a literal, a token of any
\* other kind a reference to the variable named by the token's text
calculate_operand(token) ==
    IF token.type \in {"INTEGER", "FLOAT"}
    THEN LiteralNode(token.value, token.line_num)
    ELSE VarNode(token.value.v, token.line_num)

\* the expression calculate_statement builds from the tokens before the '='
calculate_expr(expr_tokens) ==
    CASE Len(expr_tokens) = 1 /\ expr_tokens[1].type \in {"INTEGER", "FLOAT"} ->
            Ok(LiteralNode(expr_tokens[1].value, expr_tokens[1].line_num))
      [] Len(expr_tokens) = 1 /\ expr_tokens[1].type = "ID" ->
            Ok(VarNode(expr_tokens[1].value.v, expr_tokens[1].line_num))
      [] Len(expr_tokens) = 3 /\ expr_tokens[2].type
                \in {"PLUS", "MINUS", "MULTIPLY", "DIVIDE"} ->
            Ok(BinOpNode(calculate_operand(expr_tokens[1]), expr_tokens[2].value.v,
                         calculate_operand(expr_tokens[3]), expr_tokens[1].line_num))
      [] OTHER -> Raise("unsupported complex expression")

calculate_statement(toks, at) ==
    LET line_num == current_token(toks, at).line_num
        start_pos == at + 1
        equals == {i \in start_pos..(Len(toks) - 1) : toks[i + 1].type = "EQUALS"}
    IN IF equals = {}
       THEN Parser_error(toks, start_pos, "calculate needs an equals sign")
       ELSE LET equals_pos == CHOOSE i \in equals : \A j \in equals : i <= j
                e == calculate_expr(SubSeq(toks, start_pos + 1, equals_pos))
            IN IF ~e.ok THEN Parser_error(toks, start_pos, e.exc)
               ELSE IF current_token(toks, equals_pos + 1).type = "ID"
               THEN Parsed(CalculateNode(e.val,
                               current_token(toks, equals_pos + 1).value.v, line_num),
                           equals_pos + 2)
               ELSE Parser_error(toks, equals_pos + 1,
                                 "the result of calculate needs a variable")

convert_statement(toks, at) ==
    LET line_num == current_token(toks, at).line_num
        r == eat_each(toks, at, <<"CONVERT", "ID">>)
    IN IF ~r.ok THEN r
       ELSE IF current_token(toks, r.pos).type \notin {"NUMBER_TYPE", "STRING_TYPE"}
       THEN Parser_error(toks, r.pos, "invalid type name")
       ELSE LET q == eat_each(toks, r.pos + 1, <<"EQUALS", "ID">>)
            IN IF ~q.ok THEN q
               ELSE Parsed(ConvertNode(current_token(toks, at + 1).value.v,
                                       current_token(toks, at + 2).value.v,
                                       current_token(toks, at + 4).value.v, line_num),
                           q.pos)

input_statement(toks, at) ==
    LET line_num == current_token(toks, at).line_num
        r == eat_each(toks, at, <<"INPUT", "LPAREN", "STRING", "RPAREN", "EQUALS", "ID">>)
        node(restriction) ==
            InputNode(current_token(toks, at + 2).value.v,
                      current_token(toks, at + 5).value.v, restriction, line_num)
    IN IF ~r.ok THEN r
       ELSE IF current_token(toks, r.pos).type # "RESTRICT"
       THEN Parsed(node(None), r.pos)
       ELSE LET q == eat_each(toks, r.pos + 1, <<"LPAREN", "STRING_TYPE", "RPAREN">>)
            IN IF ~q.ok THEN q
               ELSE Parsed(node(current_token(toks, r.pos + 2).value), q.pos)

jump_statement(toks, at) ==
    LET line_num == current_token(toks, at).line_num
        file == current_token(toks, at + 1)
        target == current_token(toks, at + 2)
        r == eat(toks, at + 1, IF file.type = "CURRENT_FILE" THEN "CURRENT_FILE"
                               ELSE "ID")
    IN IF ~r.ok THEN r
       ELSE LET q == eat(toks, at + 2, IF target.type \in {"LINE", "INPUT"}
                                       THEN target.type ELSE "ID")
            IN IF ~q.ok THEN q
               ELSE LET v == eat_each(toks, at + 3, <<"EQUALS", "INTEGER">>)
                    IN IF ~v.ok THEN v
                       ELSE Parsed(JumpNode(
                                IF file.type = "CURRENT_FILE" THEN "current"
                                ELSE file.value.v,
                                CASE target.type = "LINE" -> "hang"
                                  [] target.type = "INPUT" -> "shuru"
                                  [] OTHER -> target.value.v,
                                current_token(toks, at + 4).value, line_num),
                              v.pos)

RECURSIVE statement(_, _)

\* block_body with the body of a loop going on over one blank line
RECURSIVE block_body_wide(_, _, _, _, _)
block_body_wide(toks, at, stops, gap, body) ==
    LET token == current_token(toks, at)
    IN IF at >= Len(toks) \/ token.type \in stops THEN Parsed(body, at)
       ELSE IF token.type \notin StatementStarts
       THEN block_body_wide(toks, at + 1, stops, gap, body)
       ELSE IF gap /\ body # <<>> /\ token.line_num > body[Len(body)].line_num + 2
       THEN Parsed(body, at)
       ELSE Then(statement(toks, at), LAMBDA stmt :
                block_body_wide(toks, stmt.pos, stops, gap, Append(body, stmt.node)))

\* the while loop of a body: statements are parsed while there are tokens,
\* tokens that start none are skipped; stops is {"ELSE", "EOF"} for the body
\* of an if and {"EOF"} for the body of an else and of a loop, and only a
\* loop ends its body (gap) at a statement that starts more than one line
\* below the last one of the body
RECURSIVE block_body(_, _, _, _, _)
block_body(toks, at, stops, gap, body) ==
    LET token == current_token(toks, at)
    IN IF at >= Len(toks) \/ token.type \in stops THEN Parsed(body, at)
       ELSE IF token.type \notin StatementStarts
       THEN block_body(toks, at + 1, stops, gap, body)
       ELSE IF gap /\ body # <<>> /\ token.line_num > body[Len(body)].line_num + 1
       THEN Parsed(body, at)
       ELSE Then(statement(toks, at), LAMBDA stmt :
                block_body(toks, stmt.pos, stops, gap, Append(body, stmt.node)))

\* the else branch of an if whose body ended at the ELSE token at `at`
else_body(toks, at) ==
    block_body(toks, IF current_token(toks, at + 1).type = "COLON"
                     THEN at + 2 ELSE at + 1,
               {"EOF"}, FALSE, <<>>)

\* if_statement ending the if body at a gap, as a loop ends its body
if_statement_to_gap(toks, at) ==
    LET line_num == current_token(toks, at).line_num
    IN Then(expr(toks, at + 1), LAMBDA condition :
           Then(eat(toks, condition.pos, "COLON"), LAMBDA r :
               Then(block_body(toks, r.pos, {"ELSE", "EOF"}, TRUE, <<>>),
                    LAMBDA body :
                        IF current_token(toks, body.pos).type # "ELSE"
                        THEN Parsed(IfNode(condition.node, body.node, <<>>, line_num),
                                    body.pos)
                        ELSE Then(else_body(toks, body.pos), LAMBDA else :
                                 Parsed(IfNode(condition.node, body.node,
                                               else.node, line_num), else.pos)))))

if_statement(toks, at) ==
    LET line_num == current_token(toks, at).line_num
    IN Then(expr(toks, at + 1), LAMBDA condition :
           Then(eat(toks, condition.pos, "COLON"), LAMBDA r :
               Then(block_body(toks, r.pos, {"ELSE", "EOF"}, FALSE, <<>>),
                    LAMBDA body :
                        IF current_token(toks, body.pos).type # "ELSE"
                        THEN Parsed(IfNode(condition.node, body.node, <<>>, line_num),
                                    body.pos)
                        ELSE Then(else_body(toks, body.pos), LAMBDA else :
                                 Parsed(IfNode(condition.node, body.node,
                                               else.node, line_num), else.pos)))))

\* a number token's value or a variable reference, as the loop takes its
\* condition value and its count
loop_operand(toks, at, message) ==
    LET token == current_token(toks, at)
    IN CASE token.type \in {"INTEGER", "FLOAT"} -> Parsed(token.value, at + 1)
         [] token.type = "ID" -> Parsed(VarNode(token.value.v, token.line_num), at + 1)
         [] OTHER -> Parser_error(toks, at, message)

\* "xunhuan", then the optional variable with its optional condition
loop_condition(toks, at) ==
    LET variable == current_token(toks, at + 1)
        condition == current_token(toks, at + 2)
        none(p) == Parsed([variable |-> None, condition |-> None, value |-> None], p)
    IN IF variable.type # "ID" THEN none(at + 1)
       ELSE IF condition.type \notin {"EQUALS", "NOT_EQUALS", "GT", "LT", "GE", "LE"}
       THEN Parsed([variable |-> variable.value, condition |-> None, value |-> None],
                   at + 2)
       ELSE LET value == loop_operand(toks, at + 3,
                                      "a number or variable must follow the condition")
            IN IF ~value.ok THEN value
               ELSE Parsed([variable |-> variable.value, condition |-> condition.value,
                            value |-> value.node], value.pos)

\* the optional "cishu = count" of a loop
loop_count(toks, at) ==
    IF current_token(toks, at).type # "LOOP_COUNT" THEN Parsed(None, at)
    ELSE Then(eat(toks, at + 1, "EQUALS"), LAMBDA r :
             loop_operand(toks, r.pos, "a number or variable must follow the count"))

loop_statement(toks, at) ==
    LET line_num == current_token(toks, at).line_num
    IN Then(loop_condition(toks, at), LAMBDA head :
           Then(loop_count(toks, head.pos), LAMBDA count :
               Then(eat(toks, count.pos, "COLON"), LAMBDA r :
                   Then(block_body(toks, r.pos, {"EOF"}, TRUE, <<>>), LAMBDA body :
                       Parsed(LoopNode(head.node.variable, head.node.condition,
                                       head.node.value, count.node, body.node,
                                       line_num), body.pos)))))

\* statement(): the dispatch on the current token
statement(toks, at) ==
    LET token == current_token(toks, at)
        next_token == IF at + 1 < Len(toks) THEN toks[at + 2].type ELSE "none"
    IN CASE token.type \in {"PRINT", "PRINT_SHORT"} -> print_statement(toks, at)
         [] token.type \in {"VAR_DEFINE", "VAR_DEFINE_SHORT"} ->
                var_define_statement(toks, at)
         [] token.type = "LIST" ->
                CASE next_token = "CREATE" -> list_create_statement(toks, at)
                  [] next_token = "GET" -> list_get_statement(toks, at)
                  [] next_token = "EDIT" -> list_edit_statement(toks, at)
                  [] OTHER -> Parser_error(toks, at,
                                  "chuangjian, huoqu or bianji must follow liebiao")
         [] token.type = "CALCULATE" -> calculate_statement(toks, at)
         [] token.type = "CONVERT" -> convert_statement(toks, at)
         [] token.type = "IF" -> if_statement(toks, at)
         [] token.type = "INPUT" -> input_statement(toks, at)
         [] token.type = "JUMP" -> jump_statement(toks, at)
         [] token.type = "LOOP" -> loop_statement(toks, at)
         [] token.type = "ELSE" ->
                Parsed(None, IF current_token(toks, at + 1).type = "COLON"
                             THEN at + 2 ELSE at + 1)
         [] OTHER -> Parser_error(toks, at, "unknown statement type: " \o token.type)

\* the recovery of parse_program: tokens are skipped up to a statement start
RECURSIVE skip_to_statement(_, _)
skip_to_statement(toks, at) ==
    IF at < Len(toks) /\ current_token(toks, at).type \notin StatementStarts
    THEN skip_to_statement(toks, at + 1)
    ELSE at

\* str.startswith('hang_')
IsLabelName(s) == Len(s) >= 5 /\ SubSeq(s, 1, 5) = "hang_"

\* parse_program giving up at the first syntax error: nothing is parsed past
\* it and no statement is kept
parse_program_next_aborting(toks, stmts, stmt) ==
    IF stmt.ok
    THEN [pos |-> stmt.pos, reported |-> None,
          statements |-> Append(stmts, stmt.node)]
    ELSE [pos |-> Len(toks) - 1, reported |-> stmt.exc, statements |-> <<>>]

\* what parse_program does with the result stmt of statement(): the position
\* and the statement list after it, and the syntax error it printed (or None)
parse_program_next(toks, stmts, stmt) ==
    IF stmt.ok
    THEN [pos |-> stmt.pos, reported |-> None,
          statements |-> Append(stmts, stmt.node)]
    ELSE [pos |-> skip_to_statement(toks, stmt.pos),
          reported |-> stmt.exc, statements |-> stmts]

\* one pass of the while loop of parse_program
parse_program_step(toks, at, stmts) ==
    LET token == current_token(toks, at)
    IN IF token.type = "ID" /\ IsLabelName(token.value.v)
       THEN [pos |-> at + 1, reported |-> None,
             statements |-> Append(stmts, LabelNode(token.value.v, token.line_num))]
       ELSE IF token.type \notin StatementStarts
       THEN [pos |-> at + 1, reported |-> None, statements |-> stmts]
       ELSE parse_program_next(toks, stmts, statement(toks, at))

-----------------------------------------------------------------------------
(* The source texts run, each given as the statement list the parser       *)
(* builds for it.  A program is named by its shape and two numbers.        *)

MaxLine == 4

MaxCount == 3

FarLine == 9

\* the syntax errors of one parse that the history keeps
MaxReports == 4

\* a literal number, variable or string in an expression
Num(n, line) == LiteralNode(IntV(n), line)

\* 1: bl x = 1
\* 2: bl s = 'a'
\* 3: dy(y)              (a = 1)   an undefined variable
\* 3: jisuan x+s = z     (a = 2)   int + str
\* 3: jisuan x/0 = z     (a = 3)   division by zero
\* 4: dy(x)
\* 3: panduan x < s:     (a = 4)   int < str, with line 4 as its body
ErrorProgram(a) ==
    LET head == <<VarDeclNode("x", Num(1, 1), 1),
                  VarDeclNode("s", LiteralNode(StrV("a"), 2), 2)>>
        last == PrintNode(VarNode("x", 4), 4)
    IN CASE a = 1 -> head \o <<PrintNode(VarNode("y", 3), 3), last>>
         [] a = 2 -> head \o <<CalculateNode(BinOpNode(VarNode("x", 3), "+",
                                    VarNode("s", 3), 3), "z", 3), last>>
         [] a = 3 -> head \o <<CalculateNode(BinOpNode(VarNode("x", 3), "/",
                                    Num(0, 3), 3), "z", 3), last>>
         [] OTHER -> head \o <<IfNode(BinOpNode(VarNode("x", 3), "<",
                                    VarNode("s", 3), 3), <<last>>, <<>>, 3)>>

\* 1: bl x = 1
\* 2: tiao ciwenjian hang=a
\* 3: dy(x)
JumpProgram(a) ==
    <<VarDeclNode("x", Num(1, 1), 1),
      JumpNode("current", "hang", IntV(a), 2),
      PrintNode(VarNode("x", 3), 3)>>

\* 1: bl count = 0
\* 2: dy(count)
\* 3: jisuan count+1 = count
\* 4: panduan count = a:
\* 5:     dy('end')          (b = 0)
\* 5:     dy(y)              (b = 1)   an undefined variable
\* 6: fouze:
\* 7:     dy('go')
\* 8:     tiao ciwenjian hang=2
\* 9:     dy('unreached')
CountdownProgram(a, b) ==
    <<VarDeclNode("count", Num(0, 1), 1),
      PrintNode(VarNode("count", 2), 2),
      CalculateNode(BinOpNode(VarNode("count", 3), "+", Num(1, 3), 3), "count", 3),
      IfNode(BinOpNode(VarNode("count", 4), "=", Num(a, 4), 4),
             <<PrintNode(IF b = 0 THEN LiteralNode(StrV("end"), 5)
                         ELSE VarNode("y", 5), 5)>>,
             <<PrintNode(LiteralNode(StrV("go"), 7), 7),
               JumpNode("current", "hang", IntV(2), 8),
               PrintNode(LiteralNode(StrV("unreached"), 9), 9)>>, 4)>>

\* 1: dy(1)
\* 2: hang_<a>
\* 3: tiao ciwenjian hang=b
LabelProgram(a, b) ==
    <<PrintNode(Num(1, 1), 1),
      LabelNode("hang_" \o IntToStr(a), 2),
      JumpNode("current", "hang", IntV(b), 3)>>

\* 1: bl x = 1 bl y = 2
\* 2: tiao ciwenjian hang=1
SameLineProgram ==
    <<VarDeclNode("x", Num(1, 1), 1),
      VarDeclNode("y", Num(2, 1), 1),
      JumpNode("current", "hang", IntV(1), 2)>>

\* 1: hang_5
\* 2: dy(1)
\* 3: tiao ciwenjian label=5     (a = 1)
\* 3: tiao ciwenjian biaoji=5    (a = 2)   an unknown target kind
\* 3: tiao qita hang=2           (a = 3)   another file
LabelJumpProgram(a) ==
    <<LabelNode("hang_5", 1),
      PrintNode(Num(1, 2), 2),
      CASE a = 1 -> JumpNode("current", "label", IntV(5), 3)
        [] a = 2 -> JumpNode("current", "biaoji", IntV(5), 3)
        [] OTHER -> JumpNode("qita", "hang", IntV(2), 3)>>

\* 1: bl x = 1
\* 2: xunhuan cishu=2:
\* 3:     jisuan x+1 = x
\* 4:     dy(x)
\* 5:
\* 6: tiao ciwenjian hang=a
NestedTargetProgram(a) ==
    <<VarDeclNode("x", Num(1, 1), 1),
      LoopNode(None, None, None, IntV(2),
               <<CalculateNode(BinOpNode(VarNode("x", 3), "+", Num(1, 3), 3), "x", 3),
                 PrintNode(VarNode("x", 4), 4)>>, 2),
      JumpNode("current", "hang", IntV(a), 6)>>

\* 1: bl x = 0
\* 2: jisuan x+1 = x
\* 3: panduan x < a:
\* 4:     xunhuan cishu=2:
\* 5:         dy(x)
\* 6:         tiao ciwenjian hang=2
\* 7:         dy('after the jump')
\* 8:
\* 9:     dy('after the loop')
\* 10: fouze:
\* 11:     dy('done')
LoopInIfProgram(a) ==
    <<VarDeclNode("x", Num(0, 1), 1),
      CalculateNode(BinOpNode(VarNode("x", 2), "+", Num(1, 2), 2), "x", 2),
      IfNode(BinOpNode(VarNode("x", 3), "<", Num(a, 3), 3),
             <<LoopNode(None, None, None, IntV(2),
                        <<PrintNode(VarNode("x", 5), 5),
                          JumpNode("current", "hang", IntV(2), 6),
                          PrintNode(LiteralNode(StrV("after the jump"), 7), 7)>>, 4),
               PrintNode(LiteralNode(StrV("after the loop"), 9), 9)>>,
             <<PrintNode(LiteralNode(StrV("done"), 11), 11)>>, 3)>>

\* 1: bl x = 0
\* 2: xunhuan cishu=3:
\* 3:     jisuan x+1 = x
\* 4:     panduan x = a:
\* 5:         tiao ciwenjian hang=2
\* 6:         dy('after the jump')
IfInLoopProgram(a) ==
    <<VarDeclNode("x", Num(0, 1), 1),
      LoopNode(None, None, None, IntV(3),
               <<CalculateNode(BinOpNode(VarNode("x", 3), "+", Num(1, 3), 3), "x", 3),
                 IfNode(BinOpNode(VarNode("x", 4), "=", Num(a, 4), 4),
                        <<JumpNode("current", "hang", IntV(2), 5),
                          PrintNode(LiteralNode(StrV("after the jump"), 6), 6)>>,
                        <<>>, 4)>>, 2)>>

\* 1: bl n = a            (a >= 0)      1: jisuan 0-<-a> = n   (a < 0)
\* 2: bl k = 0
\* 3: xunhuan cishu=n:
\* 4:     jisuan k+1 = k
\* 5:     bl n = 0
\* 6:
\* 7: dy(k)
CountVarProgram(a) ==
    <<IF a >= 0 THEN VarDeclNode("n", Num(a, 1), 1)
      ELSE CalculateNode(BinOpNode(Num(0, 1), "-", Num(-a, 1), 1), "n", 1),
      VarDeclNode("k", Num(0, 2), 2),
      LoopNode(None, None, None, VarNode("n", 3),
               <<CalculateNode(BinOpNode(VarNode("k", 4), "+", Num(1, 4), 4), "k", 4),
                 VarDeclNode("n", Num(0, 5), 5)>>, 3),
      PrintNode(VarNode("k", 7), 7)>>

\* 1: bl k = 0
\* 2: xunhuan cishu=a:
\* 3:     jisuan k+1 = k
\* 4:
\* 5: dy(k)
CountLiteralProgram(a) ==
    <<VarDeclNode("k", Num(0, 1), 1),
      LoopNode(None, None, None, IntV(a),
               <<CalculateNode(BinOpNode(VarNode("k", 3), "+", Num(1, 3), 3), "k", 3)>>,
               2),
      PrintNode(VarNode("k", 5), 5)>>

\* 1: bl i = 0
\* 2: xunhuan i < a:
\* 3:     jisuan i+b = i
\* 4:
\* 5: dy(i)
CondLoopProgram(a, b) ==
    <<VarDeclNode("i", Num(0, 1), 1),
      LoopNode(StrV("i"), StrV("<"), IntV(a), None,
               <<CalculateNode(BinOpNode(VarNode("i", 3), "+", Num(b, 3), 3), "i", 3)>>,
               2),
      PrintNode(VarNode("i", 5), 5)>>

\* 1: bl m = a
\* 2: xunhuan i =! m cishu=1:      (i is not defined when b = 0)
\* 3:     jisuan i+1 = i
\* 4:     dy(i)
\* with "1: bl i = 0 bl m = a" when b = 1
CondVarProgram(a, b) ==
    (IF b = 1 THEN <<VarDeclNode("i", Num(0, 1), 1)>> ELSE <<>>) \o
    <<VarDeclNode("m", Num(a, 1), 1),
      LoopNode(StrV("i"), StrV("=!"), VarNode("m", 2), IntV(1),
               <<CalculateNode(BinOpNode(VarNode("i", 3), "+", Num(1, 3), 3), "i", 3),
                 PrintNode(VarNode("i", 4), 4)>>, 2)>>

\* 1: tiao ciwenjian shuru=a
\* 2: dy(1)
\* 3: shuru('n') = n jin(zifu)
\* 4: shuru('s') = s
\* 5: dy(n)
InputProgram(a) ==
    <<JumpNode("current", "shuru", IntV(a), 1),
      PrintNode(Num(1, 2), 2),
      InputNode("n", "n", StrV("zifu"), 3),
      InputNode("s", "s", None, 4),
      PrintNode(VarNode("n", 5), 5)>>

\* 1: bl x = 0
\* 2: jisuan x+1 = x
\* 3: panduan x < a: tiao ciwenjian hang=3
OneLineIfProgram(a) ==
    <<VarDeclNode("x", Num(0, 1), 1),
      CalculateNode(BinOpNode(VarNode("x", 2), "+", Num(1, 2), 2), "x", 2),
      IfNode(BinOpNode(VarNode("x", 3), "<", Num(a, 3), 3),
             <<JumpNode("current", "hang", IntV(3), 3)>>, <<>>, 3)>>

\* 1: jisuan a/b = n
\* 2: bl k = 0
\* 3: xunhuan cishu=n:
\* 4:     jisuan k+1 = k
\* 5:
\* 6: dy(k)
CountDivProgram(a, b) ==
    <<CalculateNode(BinOpNode(Num(a, 1), "/", Num(b, 1), 1), "n", 1),
      VarDeclNode("k", Num(0, 2), 2),
      LoopNode(None, None, None, VarNode("n", 3),
               <<CalculateNode(BinOpNode(VarNode("k", 4), "+", Num(1, 4), 4), "k", 4)>>,
               3),
      PrintNode(VarNode("k", 6), 6)>>

\* 1: liebiao chuangjian L = [10, 20, 30]
\* 2: bl m = L
\* 3: jisuan <a>+0 = i                                 (a >= 0)
\* 3: jisuan 0-<-a> = i                                (a < 0)
\* 4: liebiao bianji L bianhao=i chuandi shuzi(9)      (b = 0)
\* 4: liebiao bianji L bianhao=i chuandi zifu('v')     (b = 1)
\* 4: liebiao bianji L bianhao=i chuandi y             (b = 2)   y is undefined
\* 5: liebiao huoqu L bianhao=1 chuandi bianliang = t  (b < 3)
\* 5: liebiao huoqu L bianhao=i chuandi bianliang = t  (b = 3)   line 4 is absent
\* 6: dy(t)
\* 7: dy(m)
ListProgram(a, b) ==
    LET head == <<ListCreateNode("L", <<Num(10, 1), Num(20, 1), Num(30, 1)>>, 1),
                  VarDeclNode("m", VarNode("L", 2), 2),
                  IF a >= 0
                  THEN CalculateNode(BinOpNode(Num(a, 3), "+", Num(0, 3), 3), "i", 3)
                  ELSE CalculateNode(BinOpNode(Num(0, 3), "-", Num(-a, 3), 3), "i", 3)>>
        value == CASE b = 0 -> Num(9, 4)
                   [] b = 1 -> LiteralNode(StrV("v"), 4)
                   [] OTHER -> VarNode("y", 4)
        edit == IF b = 3 THEN <<>>
                ELSE <<ListEditNode("L", VarNode("i", 4), value, 4)>>
        get == ListGetNode("L", IF b = 3 THEN VarNode("i", 5) ELSE IntV(1), "t", 5)
    IN head \o edit \o <<get, PrintNode(VarNode("t", 6), 6),
                          PrintNode(VarNode("m", 7), 7)>>

\* 1: bl x = 6
\* 2: bl f = x > 9
\* 3: <statement b> dividing x by 0 (a = 0), by 0.0 (a = 1), by f (a = 2)
\*      jisuan x/0 = z                  (b = 0)
\*      dy((x / 0))                     (b = 1)
\*      bl z = x / 0                    (b = 2)
\*      panduan x / 0 = 1:  dy(x)       (b = 3)
\*      liebiao chuangjian z = [x / 0]  (b = 4)
\* 4: dy(x)
DivZeroProgram(a, b) ==
    LET zero == CASE a = 0 -> Num(0, 3)
                  [] a = 1 -> LiteralNode(FloatV(0, 1), 3)
                  [] OTHER -> VarNode("f", 3)
        quotient == BinOpNode(VarNode("x", 3), "/", zero, 3)
        last == PrintNode(VarNode("x", 4), 4)
    IN <<VarDeclNode("x", Num(6, 1), 1),
         VarDeclNode("f", BinOpNode(VarNode("x", 2), ">", Num(9, 2), 2), 2)>>
       \o (CASE b = 0 -> <<CalculateNode(quotient, "z", 3), last>>
             [] b = 1 -> <<PrintNode(quotient, 3), last>>
             [] b = 2 -> <<VarDeclNode("z", quotient, 3), last>>
             [] b = 3 -> <<IfNode(BinOpNode(quotient, "=", Num(1, 3), 3),
                                 <<last>>, <<>>, 3)>>
             [] OTHER -> <<ListCreateNode("z", <<quotient>>, 3), last>>)

\* the variables of PlusProgram by the type of their value
PlusOperands == <<"n", "d", "s", "u", "L">>

\* 1: bl n = 2
\* 2: bl d = 1.5
\* 3: bl s = 'a'
\* 4: bl u = n < 3
\* 5: liebiao chuangjian L = [1]
\* 6: jisuan <PlusOperands[a]>+<PlusOperands[b]> = z
\* 7: dy(z)
PlusProgram(a, b) ==
    <<VarDeclNode("n", Num(2, 1), 1),
      VarDeclNode("d", LiteralNode(FloatV(3, 2), 2), 2),
      VarDeclNode("s", LiteralNode(StrV("a"), 3), 3),
      VarDeclNode("u", BinOpNode(VarNode("n", 4), "<", Num(3, 4), 4), 4),
      ListCreateNode("L", <<Num(1, 5)>>, 5),
      CalculateNode(BinOpNode(VarNode(PlusOperands[a], 6), "+",
                              VarNode(PlusOperands[b], 6), 6), "z", 6),
      PrintNode(VarNode("z", 7), 7)>>

\* 1: bl x = 1
\* 2: bl s = 'a'
\* 3: xunhuan cishu=2:      (b = 0)      panduan x = 1:     (b = 1)
\* 4:     jisuan x+1 = x
\* 5:     dy(y)                                (a = 1)   an undefined variable
\* 5:     jisuan x/0 = x                       (a = 2)   division by zero
\* 5:     jisuan x+s = x                       (a = 3)   int + str
\* 5:     liebiao bianji s bianhao=0 chuandi 1 (a = 4)   not a list
\* 6:     bl w = 1
\* 7:
\* 8: bl v = 2              (with b = 1 the last statement of the if body)
BodyRaiseProgram(a, b) ==
    LET failing ==
            CASE a = 1 -> PrintNode(VarNode("y", 5), 5)
              [] a = 2 -> CalculateNode(BinOpNode(VarNode("x", 5), "/",
                                                  Num(0, 5), 5), "x", 5)
              [] a = 3 -> CalculateNode(BinOpNode(VarNode("x", 5), "+",
                                                  VarNode("s", 5), 5), "x", 5)
              [] OTHER -> ListEditNode("s", IntV(0), Num(1, 5), 5)
        body == <<CalculateNode(BinOpNode(VarNode("x", 4), "+", Num(1, 4), 4), "x", 4),
                  failing,
                  VarDeclNode("w", Num(1, 6), 6)>>
        last == VarDeclNode("v", Num(2, 8), 8)
        head == <<VarDeclNode("x", Num(1, 1), 1),
                  VarDeclNode("s", LiteralNode(StrV("a"), 2), 2)>>
    IN IF b = 0
       THEN head \o <<LoopNode(None, None, None, IntV(2), body, 3), last>>
       ELSE head \o <<IfNode(BinOpNode(VarNode("x", 3), "=", Num(1, 3), 3),
                             Append(body, last), <<>>, 3)>>

\* 1: jisuan <a>-<b> = n
\* 2: zhuanhuan n zifu = s
\* 3: zhuanhuan s shuzi = r
\* 4: dy(r)
ConvertProgram(a, b) ==
    <<CalculateNode(BinOpNode(Num(a, 1), "-", Num(b, 1), 1), "n", 1),
      ConvertNode("n", "zifu", "s", 2),
      ConvertNode("s", "shuzi", "r", 3),
      PrintNode(VarNode("r", 4), 4)>>

P(shape, a, b) == [shape |-> shape, a |-> a, b |-> b]

\* the statement list of program p
ProgramOf(p) ==
    CASE p.shape = "error" -> ErrorProgram(p.a)
      [] p.shape = "jump" -> JumpProgram(p.a)
      [] p.shape = "countdown" -> CountdownProgram(p.a, p.b)
      [] p.shape = "convert" -> ConvertProgram(p.a, p.b)
      [] p.shape = "label" -> LabelProgram(p.a, p.b)
      [] p.shape = "same_line" -> SameLineProgram
      [] p.shape = "label_jump" -> LabelJumpProgram(p.a)
      [] p.shape = "nested_target" -> NestedTargetProgram(p.a)
      [] p.shape = "loop_in_if" -> LoopInIfProgram(p.a)
      [] p.shape = "if_in_loop" -> IfInLoopProgram(p.a)
      [] p.shape = "count_var" -> CountVarProgram(p.a)
      [] p.shape = "count_literal" -> CountLiteralProgram(p.a)
      [] p.shape = "cond_loop" -> CondLoopProgram(p.a, p.b)
      [] p.shape = "cond_var" -> CondVarProgram(p.a, p.b)
      [] p.shape = "input" -> InputProgram(p.a)
      [] p.shape = "one_line_if" -> OneLineIfProgram(p.a)
      [] p.shape = "count_div" -> CountDivProgram(p.a, p.b)
      [] p.shape = "list" -> ListProgram(p.a, p.b)
      [] p.shape = "div_zero" -> DivZeroProgram(p.a, p.b)
      [] p.shape = "plus" -> PlusProgram(p.a, p.b)
      [] p.shape = "body_raise" -> BodyRaiseProgram(p.a, p.b)

\* programs whose loops stay below the cap of execute_loop
LightPrograms ==
    {P("error", a, 0) : a \in 1..4}
    \cup {P("jump", a, 0) : a \in 0..MaxLine}
    \cup {P("countdown", a, 0) : a \in 1..MaxCount}
    \cup {P("convert", a, b) : a \in {0, 1, FarLine + MaxCount}, b \in 0..MaxCount}
    \cup {P("label", a, b) : a \in {1, FarLine}, b \in {1, FarLine}}
    \cup {P("same_line", 0, 0)}
    \cup {P("label_jump", a, 0) : a \in 1..3}
    \cup {P("nested_target", a, 0) : a \in 1..MaxLine}
    \cup {P("loop_in_if", a, 0) : a \in 1..MaxCount}
    \cup {P("if_in_loop", a, 0) : a \in 1..MaxCount}
    \cup {P("count_var", a, 0) : a \in (-1)..MaxCount}
    \cup {P("count_literal", a, 0) : a \in 0..MaxCount}
    \cup {P("cond_loop", a, 1) : a \in 0..MaxCount}
    \cup {P("cond_var", a, b) : a \in 0..MaxCount, b \in 0..1}
    \cup {P("input", a, 0) : a \in 0..2}
    \cup {P("one_line_if", a, 0) : a \in 1..2}
    \cup {P("count_div", a, 2) : a \in 0..MaxCount}
    \cup {P("list", a, b) : a \in (-1)..MaxCount, b \in 0..3}
    \cup {P("div_zero", a, b) : a \in 0..2, b \in 0..4}
    \cup {P("plus", a, b) : a \in 1..Len(PlusOperands), b \in 1..Len(PlusOperands)}
    \cup {P("body_raise", a, b) : a \in 1..4, b \in 0..1}

\* programs that run into the cap of execute_loop
\* the countdown that completes with its last statement as step max_iterations
\* of interpret (one step for line 1, three for every round)
LastRound == (max_iterations - 1) \div 3

CapPrograms ==
    {P("count_literal", loop_max_iterations, 0),
     P("count_literal", loop_max_iterations + 1, 0),
     P("cond_loop", 1, 0)}
    \cup {P("countdown", a, 0) : a \in (LastRound - 1)..(LastRound + 1)}
    \cup {P("countdown", LastRound, 1)}

-----------------------------------------------------------------------------
(* Source texts, run from the text: tokenize, parse, interpret.            *)

\* the texts of the shape "source"
Sources ==
    << \* the list example: create, edit, get
       "liebiao chuangjian a = [1,2,3]\n" \o
       "liebiao bianji a bianhao=1 chuandi zhuanhuan shuzi(9)\n" \o
       "liebiao huoqu a bianhao=1 chuandi bl b",
       \* the same with the value and the target as the parser takes them
       "liebiao chuangjian a = [1,2,3]\n" \o
       "liebiao bianji a bianhao=1 chuandi shuzi(9)\n" \o
       "liebiao huoqu a bianhao=1 chuandi bianliang = b\n" \o
       "dy(b)\ndy(a)",
       \* a loop in the body of an if that has an else
       "bl x = 2\n" \o
       "panduan x = 1:\n" \o
       "    xunhuan cishu=2:\n" \o
       "        dy(1)\n" \o
       "fouze:\n" \o
       "    dy(2)",
       \* an if with an else, no loop
       "bl x = 2\n" \o
       "panduan x = 1:\n" \o
       "    dy(1)\n" \o
       "fouze:\n" \o
       "    dy(2)",
       \* input, a loop with a condition, a conversion, a jump to no line
       "shuru('n') = n jin(zifu)\n" \o
       "zhuanhuan n zifu = s\n" \o
       "bl i = 0\n" \o
       "xunhuan i < 2:\n" \o
       "    jisuan i+1 = i\n" \o
       "    panduan i = 2: dy(s)\n" \o
       "\n" \o
       "\n" \o
       "tiao ciwenjian hang=7" >>

\* a line with a syntax error, at the top level
BadLines ==
    <<"bl = 2", "dy 2", "zhuanhuan x bl = y", "jisuan 1 + 2 + 3 = x",
      "tiao ciwenjian hang=x", "liebiao x">>

\* a well-formed line
GoodLines == <<"bl y = 2", "jisuan 1+2 = y", "hang_5">>

\* 1: dy(1)
\* 2: <BadLines[a]>
\* 3: <GoodLines[b]>
\* 4: dy(3)
LinesText(a, b) ==
    "dy(1)\n" \o BadLines[a] \o "\n" \o GoodLines[b] \o "\ndy(3)"

\* a syntax error ("dy 2") in the body of an if (a = 1), of an else (a = 2),
\* of a loop (a = 3); with b = 1 the body goes on after it
BodyErrorText(a, b) ==
    "bl x = 1\n" \o
    (CASE a = 1 -> "panduan x = 1:\n"
       [] a = 2 -> "panduan x = 2:\n    dy(5)\nfouze:\n"
       [] OTHER -> "xunhuan cishu=2:\n") \o
    "    dy 2\n" \o
    (IF b = 1 THEN "    dy(3)\n" ELSE "") \o
    "dy(9)"

\* text the lexer rejects
LexErrors == <<"dy(1) @", "bl s = 'ab", "bl s = \"ab", "bl t = 1 ? 2">>

\* the lines "dy(1)", "bl x = 2", "dy(x)" with LexErrors[a] put in as line b
LexErrorText(a, b) ==
    LET lines == <<"dy(1)\n", "bl x = 2\n", "dy(x)\n">>
        before == [k \in 1..3 |-> IF k < b THEN lines[k] ELSE ""]
        after == [k \in 1..3 |-> IF k >= b THEN lines[k] ELSE ""]
    IN before[1] \o before[2] \o before[3] \o LexErrors[a] \o "\n"
       \o after[1] \o after[2] \o after[3]

\* what stands between "jisuan" and the first "="
CalculateForms ==
    <<"5", "1.5", "a", "a + b", "a * 2", "2 - 1.5",
      "'s'", "'s' + 't'", "a + 't'", "( + )", "dy / 2",
      "", "a +", "a b", "a + b + 1", "a < b", "(a + b)", "+ a b">>

\* 1: bl a = 6
\* 2: bl b = 3
\* 3: jisuan <CalculateForms[a]> = x
\* 4: dy(x)
CalculateText(a) ==
    "bl a = 6\nbl b = 3\njisuan " \o CalculateForms[a] \o " = x\ndy(x)"

\* a loop whose body statement (line f) is followed, a lines further down,
\* by "dy(2)"; the lines between are blank (b = 0, 2, 3) or hold a comment
\* (b = 1); with b = 2 two blank lines stand between the loop header and
\* the body statement; with b = 3 the body statement is a list creation
\* written over three lines
\* 1: xunhuan cishu=2:
\* f:     dy(1)
\*    (a lines)
\*    dy(2)
GapText(a, b) ==
    LET between == IF b = 1 THEN "# c\n" ELSE "\n"
    IN "xunhuan cishu=2:\n" \o
       (IF b = 2 THEN "\n\n" ELSE "") \o
       (IF b = 3 THEN "    liebiao chuangjian a = [1,\n2,\n3]\n" ELSE "    dy(1)\n") \o
       (IF a >= 1 THEN between ELSE "") \o
       (IF a >= 2 THEN between ELSE "") \o
       "dy(2)"

\* an if (b = 0, 3), an if with an else (b = 1) or an if in a loop (b = 2),
\* followed, after a blank lines, by "dy(2)" at the left margin; with b = 3 a
\* label line stands before "dy(2)"
\* 1: bl x = 1
\*    xunhuan cishu=2:      (b = 2)
\*    panduan x = 1:
\*        dy(1)
\*    fouze:                (b = 1)
\*        dy(3)             (b = 1)
\*    (a blank lines)
\*    hang_9                (b = 3)
\*    dy(2)
AfterIfText(a, b) ==
    "bl x = 1\n" \o
    (IF b = 2 THEN "xunhuan cishu=2:\n" ELSE "") \o
    "panduan x = 1:\n    dy(1)\n" \o
    (IF b = 1 THEN "fouze:\n    dy(3)\n" ELSE "") \o
    (IF a >= 1 THEN "\n" ELSE "") \o
    (IF a >= 2 THEN "\n" ELSE "") \o
    (IF b = 3 THEN "hang_9\n" ELSE "") \o
    "dy(2)"

\* well-formed expressions of the general grammar, x being 5
ExprForms ==
    <<"x", "7", "'a'", "x + 3", "5 + 3", "'a' + 'b'", "(5 + 3)",
      "(x + 3) * 2", "2 * x", "x * 2 + 1", "x < 3">>

\* 1: bl x = 5
\* 2: dy(<ExprForms[a]>)
\* 3: dy(0)
PrintExprText(a) == "bl x = 5\ndy(" \o ExprForms[a] \o ")\ndy(0)"

\* 1: bl x = 5
\* 2: bl y = <ExprForms[a]>
\* 3: dy(y)
DeclExprText(a) == "bl x = 5\nbl y = " \o ExprForms[a] \o "\ndy(y)"

\* the source text of program p
SourceText(p) ==
    CASE p.shape = "source" -> Sources[p.a]
      [] p.shape = "lines" -> LinesText(p.a, p.b)
      [] p.shape = "body_error" -> BodyErrorText(p.a, p.b)
      [] p.shape = "lex_error" -> LexErrorText(p.a, p.b)
      [] p.shape = "calculate" -> CalculateText(p.a)
      [] p.shape = "gap" -> GapText(p.a, p.b)
      [] p.shape = "print_expr" -> PrintExprText(p.a)
      [] p.shape = "decl_expr" -> DeclExprText(p.a)
      [] p.shape = "after_if" -> AfterIfText(p.a, p.b)

SourcePrograms ==
    {P("source", a, 0) : a \in 1..Len(Sources)}
    \cup {P("lines", a, b) : a \in 1..Len(BadLines), b \in 1..Len(GoodLines)}
    \cup {P("body_error", a, b) : a \in 1..3, b \in 0..1}
    \cup {P("lex_error", a, b) : a \in 1..Len(LexErrors), b \in 1..4}
    \cup {P("calculate", a, 0) : a \in 1..Len(CalculateForms)}
    \cup {P("gap", a, b) : a \in 0..2, b \in 0..3}
    \cup {P("print_expr", a, 0) : a \in 1..Len(ExprForms)}
    \cup {P("decl_expr", a, 0) : a \in 1..Len(ExprForms)}
    \cup {P("after_if", a, b) : a \in 0..2, b \in 0..3}

-----------------------------------------------------------------------------
(* The run.                                                                *)

\* the statements interpret is given (Statements[k + 1] is statements[k])
Statements == ast

\* the lines a user may type at a prompt
InputTexts == {"7", "ab", "2.5"}

NoHist ==
    [last_stmt |-> None, last_depth |-> 0, fetched |-> -1, jump |-> None,
     jump_depth |-> 0, dispatched |-> None, last_loop |-> None,
     edit |-> None, get |-> None, reported |-> <<>>]

\* the state after run_code has built the Interpreter
InitWith(programs) ==
    /\ prog \in programs
    /\ tokens = <<>>
    /\ pos = 0
    /\ ast = ProgramOf(prog)
    /\ phase = "init"
    /\ variables = EmptyDict
    /\ heap = <<>>
    /\ jump_targets = EmptyDict
    /\ current_idx = 0
    /\ iteration_count = 0
    /\ stack = <<>>
    /\ retval = None
    /\ cur = None
    /\ error = None
    /\ stdout = None
    /\ warned = {}
    /\ result = None
    /\ hist = NoHist

Init == InitWith(LightPrograms)

\* the state when run_code is called with a source text
InitSource ==
    /\ prog \in SourcePrograms
    /\ tokens = <<>>
    /\ pos = 0
    /\ ast = <<>>
    /\ phase = "lex"
    /\ variables = EmptyDict
    /\ heap = <<>>
    /\ jump_targets = EmptyDict
    /\ current_idx = 0
    /\ iteration_count = 0
    /\ stack = <<>>
    /\ retval = None
    /\ cur = None
    /\ error = None
    /\ stdout = None
    /\ warned = {}
    /\ result = None
    /\ hist = NoHist

\* the configuration c becomes the state
Becomes(c) ==
    /\ variables' = c.variables
    /\ heap' = c.heap
    /\ stack' = c.stack
    /\ phase' = c.phase
    /\ retval' = c.retval
    /\ cur' = c.cur
    /\ error' = c.error
    /\ stdout' = c.stdout
    /\ warned' = c.warned
    /\ hist' = c.hist

\* the history notes the statement handed to execute_statement ...
Noting(stmt, c) ==
    [c EXCEPT !.hist.last_stmt = stmt, !.hist.last_depth = Len(c.stack)]

\* ... and the JumpResult a Jump statement has produced
NotingJump(c) ==
    IF c.phase = "ret" /\ IsJumpResult(c.retval)
    THEN [c EXCEPT !.hist.jump = c.retval, !.hist.jump_depth = Len(c.stack)]
    ELSE c

Run(stmt, c) == NotingJump(execute_statement(stmt, Noting(stmt, c)))

\* interpret, lines 486-518: the jump targets are collected
Preprocess ==
    /\ phase = "init"
    /\ jump_targets' = BuildJumpTargets(Statements)
    /\ current_idx' = 0
    /\ iteration_count' = 0
    /\ phase' = "fetch"
    /\ UNCHANGED <<prog, tokens, pos, ast, variables, heap, stack, retval, cur, error, stdout, warned,
                   result, hist>>

\* LoopGuard letting the step counter reach the cap before it stops
LoopGuard_inclusive ==
    current_idx < Len(Statements) /\ iteration_count <= max_iterations

\* the guard of interpret's while loop
LoopGuard == current_idx < Len(Statements) /\ iteration_count < max_iterations

\* interpret's while loop takes the statement at current_idx
Fetch ==
    /\ phase = "fetch"
    /\ LoopGuard
    /\ iteration_count' = iteration_count + 1
    /\ Becomes(Run(Statements[current_idx + 1],
                   [Conf EXCEPT !.hist.fetched = current_idx]))
    /\ UNCHANGED <<prog, tokens, pos, ast, jump_targets, current_idx, result>>

\* interpret's while loop ends because its guard is false
LoopEnd ==
    /\ phase = "fetch"
    /\ ~LoopGuard
    /\ phase' = "exit"
    /\ UNCHANGED <<prog, tokens, pos, ast, variables, heap, jump_targets, current_idx, iteration_count,
                   stack, retval, cur, error, stdout, warned, result, hist>>

\* next_idx with the increment also applied after a jump (the `continue` lost)
next_idx_increments(r, idx, targets) ==
    IF IsJumpResult(r) THEN targets[r.target_name.v] + 1 ELSE idx + 1

\* the index interpret continues at after a statement returned r
next_idx(r, idx, targets) ==
    IF IsJumpResult(r) THEN targets[r.target_name.v] ELSE idx + 1

\* the text of interpret's error for a jump target that is not in the table
\* (the list of available targets that follows it is left out)
NotFoundMessage(target_name) ==
    "jump target not found: " \o
        (IF target_name.t = "str" THEN target_name.v ELSE IntToStr(target_name.v))

\* interpret receives the result of execute_statement
Dispatch ==
    /\ phase = "ret"
    /\ stack = <<>>
    /\ IF IsJumpResult(retval) /\ ~HasKey(jump_targets, retval.target_name)
       THEN /\ Becomes(Thrown([Conf EXCEPT !.hist.dispatched = retval],
                     PinLangRuntimeError(NotFoundMessage(retval.target_name),
                                Statements[current_idx + 1].line_num, None)))
            /\ UNCHANGED current_idx
       ELSE /\ current_idx' = next_idx(retval, current_idx, jump_targets)
            /\ Becomes([Conf EXCEPT !.phase = "fetch", !.retval = None,
                                    !.hist.dispatched = retval])
    /\ UNCHANGED <<prog, tokens, pos, ast, jump_targets, iteration_count, result>>

\* execute_if / execute_loop run the next statement of their body
BodyStep ==
    /\ phase = "body"
    /\ stack[Len(stack)].i <= Len(stack[Len(stack)].body)
    /\ Becomes(Run(stack[Len(stack)].body[stack[Len(stack)].i], Conf))
    /\ UNCHANGED <<prog, tokens, pos, ast, jump_targets, current_idx, iteration_count, result>>

\* execute_if / execute_loop have run the last statement of their body
BodyEnd ==
    /\ phase = "body"
    /\ stack[Len(stack)].i > Len(stack[Len(stack)].body)
    /\ Becomes(body_end(Conf))
    /\ UNCHANGED <<prog, tokens, pos, ast, jump_targets, current_idx, iteration_count, result>>

\* execute_if / execute_loop receive the result of a body statement
BodyReturn ==
    /\ phase = "ret"
    /\ stack # <<>>
    /\ Becomes(body_return(Conf))
    /\ UNCHANGED <<prog, tokens, pos, ast, jump_targets, current_idx, iteration_count, result>>

\* execute_loop evaluates its while condition
LoopTest ==
    /\ phase = "test"
    /\ Becomes(loop_test(Conf))
    /\ UNCHANGED <<prog, tokens, pos, ast, jump_targets, current_idx, iteration_count, result>>

\* execute_input: the configuration after input() returned text
input_read(c, text) ==
    IF c.cur.restriction = StrV("zifu")
    THEN IF IsDigitStr(RemoveFirstDot(text))
         THEN Returned([c EXCEPT !.cur = None,
                           !.variables = Put(@, c.cur.target_var,
                                IF IsDigitStr(text) THEN IntV(ParseNat(text))
                                ELSE ParseFloat(text))], None)
         ELSE [c EXCEPT !.stdout = [kind |-> "input error", val |-> None]]
    ELSE Returned([c EXCEPT !.cur = None,
                      !.variables = Put(@, c.cur.target_var, StrV(text))], None)

\* the user types a line at the prompt of execute_input
InputRead ==
    /\ phase = "input"
    /\ \E text \in InputTexts : Becomes(input_read(Conf, text))
    /\ UNCHANGED <<prog, tokens, pos, ast, jump_targets, current_idx, iteration_count, result>>

\* the input stream is closed: input() raises EOFError
InputEOF ==
    /\ phase = "input"
    /\ Becomes(Thrown(Conf, [cls |-> "EOFError", message |-> "EOF", line_num |-> 0]))
    /\ UNCHANGED <<prog, tokens, pos, ast, jump_targets, current_idx, iteration_count, result>>

\* the user interrupts the run at the prompt: KeyboardInterrupt passes
\* interpret's except clauses and run_code returns False
Interrupt ==
    /\ phase = "input"
    /\ phase' = "done"
    /\ result' = BoolV(FALSE)
    /\ stack' = <<>>
    /\ cur' = None
    /\ stdout' = [kind |-> "interrupted", val |-> None]
    /\ UNCHANGED <<prog, tokens, pos, ast, variables, heap, jump_targets, current_idx, iteration_count,
                   retval, error, warned, hist>>

\* what run_code returns once interpret has returned
run_result(err) == BoolV(TRUE)

\* interpret, lines 564-565, and the return of run_code
Finish ==
    /\ phase = "exit"
    /\ phase' = "done"
    /\ IF iteration_count >= max_iterations
       THEN /\ warned' = warned \cup {"interpret"}
            /\ stdout' = [kind |-> "warning", val |-> None]
       ELSE UNCHANGED <<warned, stdout>>
    /\ result' = run_result(error)
    /\ UNCHANGED <<prog, tokens, pos, ast, variables, heap, jump_targets, current_idx, iteration_count,
                   stack, retval, cur, error, hist>>

\* run_code going on after a lexical error, with the end-of-file token alone
Tokenize_goes_on ==
    /\ phase = "lex"
    /\ LET r == tokenize(SourceText(prog))
       IN /\ tokens' = IF r.ok THEN r.val ELSE <<Token("EOF", None, 1)>>
          /\ stdout' = IF r.ok THEN stdout ELSE [kind |-> "error", val |-> r.exc]
    /\ phase' = "parse"
    /\ UNCHANGED <<prog, pos, ast, variables, heap, jump_targets, current_idx,
                   iteration_count, stack, retval, cur, error, warned, result, hist>>

\* run_code: lexer.tokenize(); a lexical error reaches run_code's except
\* clause, which prints it and returns False
Tokenize ==
    /\ phase = "lex"
    /\ LET r == tokenize(SourceText(prog))
       IN IF r.ok
          THEN /\ tokens' = r.val
               /\ phase' = "parse"
               /\ UNCHANGED <<error, stdout, result>>
          ELSE /\ phase' = "done"
               /\ error' = r.exc
               /\ stdout' = [kind |-> "error", val |-> r.exc]
               /\ result' = BoolV(FALSE)
               /\ UNCHANGED tokens
    /\ UNCHANGED <<prog, pos, ast, variables, heap, jump_targets, current_idx,
                   iteration_count, stack, retval, cur, warned, hist>>

\* the syntax errors printed so far, the first MaxReports of them
Reported(errors, exc) ==
    IF Len(errors) < MaxReports THEN Append(errors, exc) ELSE errors

\* one pass of the while loop of parse_program; a syntax error is printed
ParseStep ==
    /\ phase = "parse"
    /\ current_token(tokens, pos).type # "EOF"
    /\ LET r == parse_program_step(tokens, pos, ast)
       IN /\ pos' = r.pos
          /\ ast' = r.statements
          /\ IF r.reported = None THEN UNCHANGED <<stdout, hist>>
             ELSE /\ stdout' = [kind |-> "error", val |-> r.reported]
                  /\ hist' = [hist EXCEPT !.reported = Reported(@, r.reported)]
    /\ UNCHANGED <<prog, tokens, phase, variables, heap, jump_targets, current_idx,
                   iteration_count, stack, retval, cur, error, warned, result>>

\* parse_program returns at EOF and run_code builds the Interpreter
ParseEnd ==
    /\ phase = "parse"
    /\ current_token(tokens, pos).type = "EOF"
    /\ phase' = "init"
    /\ UNCHANGED <<prog, tokens, pos, ast, variables, heap, jump_targets,
                   current_idx, iteration_count, stack, retval, cur, error,
                   stdout, warned, result, hist>>

Next ==
    \/ Preprocess
    \/ Fetch
    \/ LoopEnd
    \/ Dispatch
    \/ BodyStep
    \/ BodyEnd
    \/ BodyReturn
    \/ LoopTest
    \/ InputRead
    \/ InputEOF
    \/ Interrupt
    \/ Finish

Spec == Init /\ [][Next]_vars

\* the runs of the programs that reach the cap of execute_loop, among others
InitCap == InitWith(CapPrograms \cup LightPrograms)

SpecCap == InitCap /\ [][Next]_vars

\* a run goes on while it can: the interpreter is a running process
FairSpec == Spec /\ WF_vars(Next)

\* run_code from the source text on
NextSource ==
    \/ Tokenize
    \/ ParseStep
    \/ ParseEnd
    \/ Next

SpecSource == InitSource /\ [][NextSource]_vars


-----------------------------------------------------------------------------
(* Properties.                                                             *)

Done == phase = "done"

\* a statement's result is about to reach interpret
AtDispatch == phase = "ret" /\ stack = <<>>

\* the source lines of the top-level statements
TopLines == {Statements[k].line_num : k \in 1..Len(Statements)}

NestedLines ==
    UNION {CASE Statements[k].kind = "IfNode" ->
                    LinesOf(Statements[k].body) \cup LinesOf(Statements[k].else_body)
             [] Statements[k].kind = "LoopNode" -> LinesOf(Statements[k].body)
             [] OTHER -> {} : k \in 1..Len(Statements)}

\* interpret is about to receive the JumpResult of a `tiao ciwenjian hang=N`
LineJumpAtDispatch ==
    /\ AtDispatch
    /\ IsJumpResult(retval)
    /\ hist.last_stmt.kind = "JumpNode"
    /\ hist.last_stmt.target_type = "hang"

JumpNotFound ==
    /\ error # None
    /\ error.cls = "PinLangRuntimeError"
    /\ IsJumpResult(hist.dispatched)
    /\ error.message = NotFoundMessage(hist.dispatched.target_name)

\* the names of the Label statements of the program
LabelNames ==
    {Statements[k].label_name :
        k \in {j \in 1..Len(Statements) : Statements[j].kind = "LabelNode"}}

\* the line N of the `tiao ciwenjian hang=N` whose result is in flight
TargetLine == hist.last_stmt.target_value.v

\* C1: run returns False whenever an error occurred during the run, and True
\* only when none occurred.
C1_RunReportsFailure == Done /\ error # None => result = BoolV(FALSE)

\* C2: in the dispatch loop a fall-through result advances the program
\* counter by exactly one, and a jump whose target is in the table sets it to
\* exactly the table's index, without increment; the statement at the program
\* counter is the next top-level statement executed.
C2_DispatchSetsCounter ==
    [][/\ AtDispatch /\ ~IsJumpResult(retval)
            => /\ phase' = "fetch"
               /\ current_idx' = current_idx + 1
       /\ AtDispatch /\ IsJumpResult(retval) /\ HasKey(jump_targets, retval.target_name)
            => /\ phase' = "fetch"
               /\ current_idx' = jump_targets[retval.target_name.v]
       /\ phase = "fetch" /\ phase' # "fetch" /\ LoopGuard
            => /\ current_idx' = current_idx
               /\ hist'.fetched = current_idx
               /\ hist'.last_stmt = Statements[current_idx + 1]
               /\ hist'.last_depth = 0]_vars

\* a jump statement has jumped to itself and is about to be executed again
C2_SelfJumpDispatched ==
    /\ phase = "fetch"
    /\ error = None
    /\ IsJumpResult(hist.dispatched)
    /\ current_idx = hist.fetched
    /\ Statements[current_idx + 1].kind = "JumpNode"

\* C3: a jump `tiao ciwenjian hang=N` where N is not the source line of any
\* statement in the table raises a RuntimeError and the run stops there.
C3_MissingLineRaises ==
    [][LineJumpAtDispatch /\ TargetLine \notin TopLines
         => /\ phase' = "exit"
            /\ error' # None
            /\ error'.cls = "PinLangRuntimeError"]_vars

\* C4: for every top-level statement s on source line N the table entry for
\* line N is the index of s, so that a jump to line N makes s the next
\* statement executed, whatever labels or other statements the program has.
C4_LineTargetIsItsStatement ==
    phase # "init" =>
        \A k \in 1..Len(Statements) :
            jump_targets["hang_" \o IntToStr(Statements[k].line_num)] = k - 1

\* C5: a jump of target kind `label` that names a Label of the program
\* resolves, and the run continues at that Label's statement index.
C5_LabelJumpResolves ==
    [][(/\ AtDispatch
        /\ IsJumpResult(retval)
        /\ hist.last_stmt.kind = "JumpNode"
        /\ hist.last_stmt.target_type = "label"
        /\ ("hang_" \o IntToStr(TargetLine)) \in LabelNames)
         => /\ phase' = "fetch"
            /\ error' = None
            /\ Statements[current_idx' + 1].kind = "LabelNode"]_vars

\* C6 as stated: a `tiao ciwenjian hang=N` where N is the line of a statement
\* nested in an if/else/loop body resolves, and the run goes on.
C6_NestedLineJumpResolves ==
    [][LineJumpAtDispatch /\ TargetLine \in NestedLines
         => /\ phase' = "fetch"
            /\ error' = None]_vars

\* the statement interpret continues at is on line n or is a Label hang_<n>
OnLineOrLabelled(idx, n) ==
    /\ idx \in 0..(Len(Statements) - 1)
    /\ \/ Statements[idx + 1].line_num = n
       \/ /\ Statements[idx + 1].kind = "LabelNode"
          /\ Statements[idx + 1].label_name = "hang_" \o IntToStr(n)

\* C6: a jump relocates execution to top-level statements only: a
\* `tiao ciwenjian hang=N` resolves when a top-level statement is on line N
\* or a Label is named hang_N, and the run continues at that top-level
\* statement; for any other N, the line of a nested statement included, it
\* raises the RuntimeError of a missing target and the run stops.
C6_JumpsReachTopLevelOnly ==
    [][/\ (LineJumpAtDispatch /\ TargetLine \notin TopLines
             /\ ("hang_" \o IntToStr(TargetLine)) \notin LabelNames)
            => /\ phase' = "exit"
               /\ error' = PinLangRuntimeError(NotFoundMessage(retval.target_name),
                                               hist.last_stmt.line_num, None)
               /\ current_idx' = current_idx
       /\ (LineJumpAtDispatch
             /\ (\/ TargetLine \in TopLines
                 \/ ("hang_" \o IntToStr(TargetLine)) \in LabelNames))
            => /\ phase' = "fetch"
               /\ error' = None
               /\ OnLineOrLabelled(current_idx', TargetLine)]_vars

\* a jump to the line of a nested statement has ended the run with the error
C6_NestedLineNotFound ==
    /\ JumpNotFound
    /\ hist.last_stmt.kind = "JumpNode"
    /\ hist.last_stmt.target_type = "hang"
    /\ TargetLine \in NestedLines
    /\ TargetLine \notin TopLines

\* C7: a JumpResult produced inside if/else/loop bodies reaches the dispatch
\* loop unchanged: each enclosing If and Loop returns it at once, without
\* running another statement or iteration, and the name that reaches
\* interpret is the one the Jump statement produced.
C7_JumpResultPropagates ==
    [][(phase = "ret" /\ IsJumpResult(retval))
         => /\ hist.last_stmt.kind = "JumpNode"
            /\ Ok(retval) = execute_jump(hist.last_stmt)
            /\ Len(stack) <= hist.jump_depth
            /\ stack # <<>>
                 => /\ phase' = "ret"
                    /\ retval' = retval
                    /\ stack' = Front(stack)
                    /\ variables' = variables
                    /\ stdout' = stdout
                    /\ hist'.last_stmt = hist.last_stmt]_vars

\* the JumpResult of a Jump two bodies deep is about to reach interpret
C7_DeepJumpAtDispatch ==
    /\ AtDispatch
    /\ IsJumpResult(retval)
    /\ hist.jump_depth >= 2
    /\ hist.jump = retval

\* interpret's loop is at a statement it will not run: the cap is reached
CapHit ==
    /\ phase = "fetch"
    /\ iteration_count >= max_iterations
    /\ current_idx < Len(Statements)

\* C8: whatever jumps a program performs, interpret executes at most 1000
\* top-level statements; at the cap the run stops with the warning and
\* without an error, and every run ends.
C8_DispatchCapped ==
    /\ [](iteration_count <= max_iterations)
    /\ [][CapHit => /\ phase' = "exit"
                    /\ error' = None
                    /\ UNCHANGED <<variables, stdout, current_idx,
                                   iteration_count, hist>>]_vars
    /\ [][phase = "exit" /\ iteration_count >= max_iterations
            => /\ "interpret" \in warned'
               /\ error' = error
               /\ phase' = "done"]_vars
    /\ <>Done

\* a run that was stopped by the cap has ended
C8_StoppedAtCap ==
    /\ Done
    /\ iteration_count = max_iterations
    /\ current_idx < Len(Statements)
    /\ "interpret" \in warned
    /\ error = None

\* the programs whose only loop is a count-only loop with an error-free,
\* jump-free body counted in k, and the count each of them asks for
CountShapes == {"count_literal", "count_var", "count_div"}

AskedCount == IF prog.shape = "count_div" THEN prog.a \div prog.b ELSE prog.a

\* C9 as stated: a count-only loop executes its body exactly count times,
\* for every count value.
C9_ExactlyCountTimes ==
    (Done /\ prog.shape \in CountShapes /\ AskedCount >= 0)
        => variables["k"] = IntV(AskedCount)

Clamp(n) ==
    IF n < 0 THEN 0
    ELSE IF n > loop_max_iterations THEN loop_max_iterations ELSE n

\* C9: a count-only loop whose body produces no jump and no error executes
\* its body exactly count times for a count from 0 to 10,000 (a fractional
\* count is truncated), not at all for a negative count and 10,000 times for
\* a larger one; from 10,000 on it prints the warning.  A count given by a
\* variable is read once, at loop entry.
C9_CountTimesUpToCap ==
    /\ (hist.last_loop # None /\ CountOnly(hist.last_loop.node))
         => /\ hist.last_loop.completed = Clamp(hist.last_loop.loop_count)
            /\ hist.last_loop.iteration_count = hist.last_loop.completed
    /\ (hist.last_loop # None /\ prog.shape \in CountShapes)
         => /\ hist.last_loop.loop_count = AskedCount
            /\ variables["k"] = IntV(Clamp(AskedCount))
            /\ "loop" \in warned <=> AskedCount >= loop_max_iterations
    /\ (Done /\ prog.shape \in CountShapes)
         => /\ error = None
            /\ hist.last_loop # None
            /\ stdout = Printed(IntV(Clamp(AskedCount)))

\* a loop asked for more passes than the cap has ended at the cap
C9_CountAboveCapCut ==
    /\ Done
    /\ prog.shape = "count_literal"
    /\ AskedCount > loop_max_iterations
    /\ variables["k"] = IntV(loop_max_iterations)
    /\ "loop" \in warned

\* the frame of the innermost active execute_if / execute_loop
Top == stack[Len(stack)]

\* execute_loop is at the while test of a condition-checked loop whose
\* variable is defined
AtConditionTest ==
    /\ phase = "test"
    /\ ~CountOnly(Top.node)
    /\ Top.node.variable.v \in DOMAIN variables

\* the loop variable satisfies the comparison of the loop at the test now
\* (the loops run compare i: `i < a` in one shape, `i =! m` in the other)
Satisfied ==
    IF prog.shape = "cond_loop" THEN variables["i"].v < prog.a
    ELSE variables["i"].v # variables["m"].v

\* C10: a condition-checked loop tests its variable against the comparison
\* before every iteration; it runs the body once more exactly when the
\* comparison holds and fewer than 10,000 iterations have run, and otherwise
\* ends without an error, with the warning exactly at the cap; the statement
\* after the loop then executes.
C10_ConditionLoopStops ==
    [][/\ (AtConditionTest /\ Satisfied /\ Top.iteration_count < loop_max_iterations)
            => /\ phase' = "body"
               /\ stack' = [stack EXCEPT ![Len(stack)].iteration_count = @ + 1,
                                         ![Len(stack)].i = 1]
               /\ UNCHANGED <<variables, warned, error>>
       /\ (AtConditionTest
             /\ ~(Satisfied /\ Top.iteration_count < loop_max_iterations))
            => /\ phase' = "ret"
               /\ retval' = None
               /\ stack' = Front(stack)
               /\ error' = None
               /\ UNCHANGED variables
               /\ "loop" \in warned' <=> Top.iteration_count >= loop_max_iterations
               /\ hist'.last_loop.iteration_count = Top.iteration_count
       /\ (phase = "body" /\ Top.node.kind = "LoopNode" /\ ~CountOnly(Top.node)
             /\ Top.i > Len(Top.body))
            => phase' = "test"
       /\ (AtDispatch /\ prog.shape = "cond_loop" /\ hist.fetched = 1)
            => /\ phase' = "fetch"
               /\ current_idx' = 2
       /\ (prog.shape = "cond_loop" /\ phase = "fetch" /\ current_idx = 2)
            => /\ stdout' = Printed(variables["i"])
               /\ hist'.last_stmt = Statements[3]]_vars

\* the loop that never leaves its condition was cut at the cap, and the
\* statement after it has run
C10_CutAtCapThenGoesOn ==
    /\ Done
    /\ prog.shape = "cond_loop"
    /\ prog.b = 0
    /\ "loop" \in warned
    /\ hist.last_loop.iteration_count = loop_max_iterations
    /\ hist.last_stmt = Statements[3]
    /\ stdout = Printed(IntV(0))
    /\ error = None

\* execute_statement is about to be handed a statement
RunsStatement ==
    \/ phase = "fetch" /\ LoopGuard
    \/ phase = "body" /\ stack[Len(stack)].i <= Len(stack[Len(stack)].body)

StatementToRun ==
    IF phase = "fetch" THEN Statements[current_idx + 1]
    ELSE stack[Len(stack)].body[stack[Len(stack)].i]

\* the statement to run is a ListGet or ListEdit of a list, and its index is
\* an integer outside [0, length)
IndexOutside ==
    /\ RunsStatement
    /\ StatementToRun.kind \in {"ListGetNode", "ListEditNode"}
    /\ StatementToRun.list_name \in DOMAIN variables
    /\ variables[StatementToRun.list_name].t = "list"
    /\ LET index == IF IsAST(StatementToRun.index)
                    THEN execute_node(StatementToRun.index, variables)
                    ELSE Ok(StatementToRun.index)
       IN /\ index.ok
          /\ IsInt(index.val)
          /\ \/ NumOf(index.val)[1] < 0
             \/ NumOf(index.val)[1] >=
                    Len(heap[variables[StatementToRun.list_name].ref])

BoundsError(line_num) == RuntimeErr("list index out of range", line_num)

\* C11: a ListGet or ListEdit whose integer index is outside [0, length)
\* raises the bounds RuntimeError and leaves the list and every binding as
\* they were: the target is not bound, the value is neither evaluated nor
\* stored.
C11_IndexOutsideRaises ==
    [][IndexOutside
        => /\ error' = BoundsError(StatementToRun.line_num)
           /\ variables' = variables
           /\ heap' = heap]_vars

\* a ListEdit whose value is an undefined variable has failed on its index
C11_EditOutsideRaised ==
    /\ error # None
    /\ error = BoundsError(hist.last_stmt.line_num)
    /\ hist.last_stmt.kind = "ListEditNode"
    /\ hist.last_stmt.value.kind = "VarNode"
    /\ hist.last_stmt.value.var_name \notin DOMAIN variables

\* a ListGet has just returned, and the last edit was of the same list
\* object at the same index
GotEdited ==
    /\ phase = "ret"
    /\ hist.last_stmt.kind = "ListGetNode"
    /\ hist.edit # None
    /\ hist.get # None
    /\ hist.get.list_name = hist.edit.list_name
    /\ hist.get.index = hist.edit.index
    /\ hist.edit.list_name \in DOMAIN variables
    /\ variables[hist.edit.list_name] = ListV(hist.edit.ref)

\* a ListEdit succeeds in this step
EditSucceeds ==
    /\ RunsStatement
    /\ StatementToRun.kind = "ListEditNode"
    /\ phase' = "ret"

\* C12: after a successful ListEdit of L at i with v, a ListGet of L at i
\* (no edit or rebinding of L in between) binds its target to v, and the edit
\* leaves the length and every other item of the list as they were.
C12_GetReadsEdit ==
    /\ [](GotEdited => variables[hist.last_stmt.target_var] = hist.edit.value)
    /\ [][EditSucceeds
            => LET before == heap[hist'.edit.ref]
                   after == heap'[hist'.edit.ref]
               IN /\ Len(after) = Len(before)
                  /\ after[hist'.edit.index + 1] = hist'.edit.value
                  /\ \A j \in 1..Len(before) :
                        j # hist'.edit.index + 1 => after[j] = before[j]]_vars

\* the ListGet read an item an edit had changed
C12_GotNewItem ==
    /\ GotEdited
    /\ variables[hist.last_stmt.target_var] = IntV(9)
    /\ heap[hist.edit.ref] = <<IntV(10), IntV(9), IntV(30)>>
\* the expressions a statement evaluates itself
ExprsOf(stmt) ==
    CASE stmt.kind \in {"PrintNode", "VarDeclNode"} -> {stmt.value}
      [] stmt.kind = "CalculateNode" -> {stmt.expr}
      [] stmt.kind = "IfNode" -> {stmt.condition}
      [] stmt.kind = "ListCreateNode" ->
            {stmt.values[k] : k \in 1..Len(stmt.values)}
      [] stmt.kind = "ListEditNode" -> {stmt.value}
      [] OTHER -> {}

\* the binary operations in the expression e
RECURSIVE BinOpsIn(_)
BinOpsIn(e) ==
    IF e.kind = "BinOpNode" THEN {e} \cup BinOpsIn(e.left) \cup BinOpsIn(e.right)
    ELSE {}

\* e is a division of a number by a zero
DividesByZero(e) ==
    /\ e.op = "/"
    /\ LET left == execute_node(e.left, variables)
           right == execute_node(e.right, variables)
       IN /\ left.ok /\ right.ok
          /\ IsNumber(left.val) /\ IsNumber(right.val)
          /\ PyEq(right.val, IntV(0))

\* the statement to run divides a number by zero
RunsDivisionByZero ==
    /\ RunsStatement
    /\ \E e \in ExprsOf(StatementToRun) : \E d \in BinOpsIn(e) : DividesByZero(d)

\* C13: a division of a number by a zero (0, 0.0 or False) raises the
\* interpreter's RuntimeError, never an exception of the host, and the
\* statement it is in binds nothing.
C13_DivisionByZeroRaises ==
    [][RunsDivisionByZero
        => /\ error' # None
           /\ error'.cls = "PinLangRuntimeError"
           /\ error'.line_num = StatementToRun.line_num
           /\ variables' = variables
           /\ heap' = heap]_vars

\* a variable declaration dividing by False has raised
C13_DividedByFalse ==
    /\ error # None
    /\ error = RuntimeErr("division by zero", hist.last_stmt.line_num)
    /\ hist.last_stmt.kind = "VarDeclNode"
    /\ hist.last_stmt.value.kind = "BinOpNode"
    /\ hist.last_stmt.value.right.kind = "VarNode"
    /\ variables[hist.last_stmt.value.right.var_name] = BoolV(FALSE)
    /\ hist.last_stmt.var_name \notin DOMAIN variables
\* the statement to run is a calculate of left + right, both defined
RunsPlus ==
    /\ RunsStatement
    /\ StatementToRun.kind = "CalculateNode"
    /\ StatementToRun.expr.kind = "BinOpNode"
    /\ StatementToRun.expr.op = "+"
    /\ execute_node(StatementToRun.expr.left, variables).ok
    /\ execute_node(StatementToRun.expr.right, variables).ok

\* both operands of the + to run are numbers (int or float), or both strings
PlusOfAlike ==
    LET left == execute_node(StatementToRun.expr.left, variables).val
        right == execute_node(StatementToRun.expr.right, variables).val
    IN \/ left.t \in {"int", "float"} /\ right.t \in {"int", "float"}
       \/ left.t = "str" /\ right.t = "str"

\* C18: + succeeds only on two numbers or two strings; every other pair of
\* operand types (a string with a number, a list, a boolean from a
\* comparison) raises the type error.
C18_PlusNeedsAlikeOperands ==
    [][RunsPlus
        => IF PlusOfAlike THEN error' = None
           ELSE error' # None /\ error'.cls = "PinLangTypeError"]_vars

-----------------------------------------------------------------------------
(* C17 *)

\* the lexer rejects the source text of the run
LexicalError == ~tokenize(SourceText(prog)).ok

\* C17: a lexical error is all-or-nothing: the run gets no tokens from the
\* text, so nothing is parsed and nothing is executed, and when the run is
\* over it has printed the error and returned False
C17_LexicalErrorStopsRun ==
    LexicalError =>
        /\ tokens = <<>> /\ ast = <<>>
        /\ variables = EmptyDict /\ heap = <<>>
        /\ phase \in {"lex", "done"}
        /\ phase = "done" =>
              /\ result = BoolV(FALSE)
              /\ stdout = [kind |-> "error", val |-> tokenize(SourceText(prog)).exc]

\* an unclosed string on line 3, after two statements that would print and
\* bind: the run is over
C17_UnclosedStringReported ==
    /\ prog = P("lex_error", 2, 3)
    /\ phase = "done"
    /\ result = BoolV(FALSE)
    /\ error = SyntaxErr("unclosed string", 3)

-----------------------------------------------------------------------------
(* C14 *)

\* the kinds of the statements stmts
Kinds(stmts) == [i \in 1..Len(stmts) |-> stmts[i].kind]

\* the source text is tokenized and parsed
ParseOver == phase \notin {"lex", "parse"}

\* C14: the three-line list example (create a = [1,2,3], edit item 1 with
\* "zhuanhuan shuzi(9)", get item 1 into "bl b") parses into a ListCreate, a
\* ListEdit and a ListGet, and its run ends with b = 9 and a = [1, 9, 3]
C14_ListExampleRuns ==
    prog = P("source", 1, 0) =>
        /\ ParseOver =>
              Kinds(ast) = <<"ListCreateNode", "ListEditNode", "ListGetNode">>
        /\ phase = "done" =>
              /\ {"a", "b"} \subseteq DOMAIN variables
              /\ variables.b = IntV(9)
              /\ heap[variables.a.ref] = <<IntV(1), IntV(9), IntV(3)>>

-----------------------------------------------------------------------------
(* C20 *)

\* the lines of a text
LinesOfText(text) ==
    [k \in 1..(Cardinality(Newlines(text)) + 1) |-> LineOf(text, k)]

\* C20: an if whose body is "dy(1)" (source 4) or a loop around "dy(1)"
\* (source 3), followed by "fouze:" and "dy(2)": the body, also the body of
\* the nested loop, ends at the ELSE token and leaves it to the if, whose else
\* branch is "dy(2)"
C20_BodyStopsAtElse ==
    (prog \in {P("source", 3, 0), P("source", 4, 0)} /\ ParseOver) =>
        /\ Kinds(ast) = <<"VarDeclNode", "IfNode">>
        /\ Len(ast[2].body) = 1
        /\ ast[2].body[1].kind = "LoopNode" =>
              ast[2].body[1].body = <<PrintNode(Num(1, 4), 4)>>
        /\ ast[2].else_body
              = <<PrintNode(Num(2, Len(LinesOfText(SourceText(prog)))),
                            Len(LinesOfText(SourceText(prog))))>>

-----------------------------------------------------------------------------
(* C19 *)

\* the parser stands at a calculate statement that has an '=' with a name
\* after it
AtCalculate ==
    /\ phase = "parse"
    /\ current_token(tokens, pos).type = "CALCULATE"
    /\ \E i \in (pos + 2)..(Len(tokens) - 1) :
           tokens[i].type = "EQUALS" /\ tokens[i + 1].type = "ID"

\* the place in tokens of the first '=' after the CALCULATE keyword
FirstEquals == Least({i \in (pos + 2)..Len(tokens) : tokens[i].type = "EQUALS"})

\* the tokens between the CALCULATE keyword and that '='
Between == SubSeq(tokens, pos + 2, FirstEquals - 1)

\* a literal or an identifier
IsOperand(token) == token.type \in {"INTEGER", "FLOAT", "STRING", "ID"}

\* an operand as what it is
OperandNode(token) ==
    IF token.type = "ID"
    THEN VarNode(token.value.v, token.line_num)
    ELSE LiteralNode(token.value, token.line_num)

\* one operand, or operand op operand
Acceptable(b) ==
    \/ Len(b) = 1 /\ IsOperand(b[1])
    \/ /\ Len(b) = 3
       /\ IsOperand(b[1])
       /\ b[2].type \in {"PLUS", "MINUS", "MULTIPLY", "DIVIDE"}
       /\ IsOperand(b[3])

ExpectedExpr(b) ==
    IF Len(b) = 1
    THEN OperandNode(b[1])
    ELSE BinOpNode(OperandNode(b[1]), b[2].value.v, OperandNode(b[3]),
                   b[1].line_num)

\* the step the parser is to take at a calculate statement
CalculateAsStated ==
    IF Acceptable(Between)
    THEN /\ ast' = Append(ast,
                      CalculateNode(ExpectedExpr(Between),
                                    tokens[FirstEquals + 1].value.v,
                                    current_token(tokens, pos).line_num))
         /\ hist'.reported = hist.reported
    ELSE /\ ast' = ast
         /\ hist'.reported
              = Append(hist.reported,
                       SyntaxErr("unsupported complex expression",
                                 current_token(tokens, pos + 1).line_num))

\* C19: the step that parses a calculate statement adds the Calculate of the
\* expected expression and reports nothing exactly when the tokens between
\* CALCULATE and the first '=' are one operand or operand op operand (an
\* operand being a literal or an identifier, op one of + - * /); for every
\* other token sequence it adds no statement and reports "unsupported complex
\* expression"
C19_CalculateForms == [][AtCalculate => CalculateAsStated]_vars

-----------------------------------------------------------------------------
(* C16 *)

\* the source has a syntax error in the body of an if, of an else or of a loop
BodyError == prog.shape = "body_error"

\* the line of the error "dy 2" in the body
BodyErrorLine == IF prog.a = 2 THEN 5 ELSE 3

-----------------------------------------------------------------------------
(* C15 *)

\* the source is "dy(1)", a line with a syntax error, a well-formed line and
\* "dy(3)", all at the top level
TopLevelError == prog.shape = "lines"

\* the statement of the well-formed line 3
GoodStatement(b) ==
    CASE b = 1 -> VarDeclNode("y", Num(2, 3), 3)
      [] b = 2 -> CalculateNode(BinOpNode(Num(1, 3), "+", Num(2, 3), 3), "y", 3)
      [] OTHER -> LabelNode("hang_5", 3)

NotOfLine2(stmt) == stmt.line_num # 2

\* C15: once the syntax error of line 2 is reported, the statement parsed
\* before it stays first in the program and the parser has left the keyword
\* of the failed statement (the token at 4) behind; when the parse is over the
\* program holds, in source order, the statements of lines 1, 3 and 4; the
\* error is not fatal: the run ends well, after printing 3
C15_TopLevelRecovery ==
    (TopLevelError /\ hist.reported # <<>>) =>
        /\ Len(ast) >= 1 /\ ast[1] = PrintNode(Num(1, 1), 1)
        /\ pos > 4
        /\ ParseOver =>
              SelectSeq(ast, NotOfLine2)
                = <<PrintNode(Num(1, 1), 1), GoodStatement(prog.b),
                    PrintNode(Num(3, 4), 4)>>
        /\ phase = "done" =>
              result = BoolV(TRUE) /\ stdout = Printed(IntV(3))

-----------------------------------------------------------------------------
(* C21 *)

\* the source is a loop with one body statement and "dy(2)" below it
LoopGap == prog.shape = "gap"

\* the line of the first token of the body statement, and of "dy(2)"
GapFirstLine == IF prog.b = 2 THEN 4 ELSE 2
GapNextLine == GapFirstLine + (IF prog.b = 3 THEN 3 ELSE 1) + prog.a

\* "dy(2)" as a statement
GapNext == PrintNode(Num(2, GapNextLine), GapNextLine)

\* the body statement of the loop
GapFirst ==
    IF prog.b = 3
    THEN ListCreateNode("a", <<Num(1, 2), Num(2, 2), Num(3, 2)>>, 2)
    ELSE PrintNode(Num(1, GapFirstLine), GapFirstLine)

\* the program in which "dy(2)" belongs to the loop body, or follows the loop
GapProgram(inside) ==
    IF inside
    THEN <<LoopNode(None, None, None, IntV(2), <<GapFirst, GapNext>>, 1)>>
    ELSE <<LoopNode(None, None, None, IntV(2), <<GapFirst>>, 1), GapNext>>

\* C21, as stated: "dy(2)" is part of the loop body unless more than one blank
\* or comment-only line separates it from the body statement
C21_OneBlankLineStaysInBody ==
    (LoopGap /\ ParseOver) => ast = GapProgram(prog.a <= 1)

\* C21, amended: "dy(2)" is part of the loop body exactly when its line is at
\* most one below the line of the first token of the body statement: a single
\* blank or comment-only line between them ends the body, and so does a body
\* statement that is written over more lines; the first statement after the
\* header is in the body whatever its line
C21_GapEndsLoopBody ==
    (LoopGap /\ ParseOver) =>
        ast = GapProgram(GapNextLine <= GapFirst.line_num + 1)

\* the body ended at a statement one blank line below the body statement,
\* which came two blank lines below the header
C21_EndedByOneBlankLine ==
    /\ prog = P("gap", 1, 2)
    /\ phase = "done"
    /\ ast = <<LoopNode(None, None, None, IntV(2), <<PrintNode(Num(1, 4), 4)>>, 1),
               PrintNode(Num(2, 6), 6)>>
    /\ stdout = Printed(IntV(2))

-----------------------------------------------------------------------------
(* C22 *)

\* the expression the general grammar builds for ExprForms[a] on line 2
ExprOfForm(a) == expr(tokenize("\n" \o ExprForms[a]).val, 0).node

\* C22: "dy(e)" parses to the Print of e for every well-formed expression e:
\* the program of "bl x = 5", "dy(e)", "dy(0)" is the declaration, Print(e)
\* and Print(0), and no syntax error is reported
C22_PrintTakesAnyExpression ==
    (prog.shape = "print_expr" /\ ParseOver) =>
        /\ hist.reported = <<>>
        /\ ast = <<VarDeclNode("x", Num(5, 1), 1),
                   PrintNode(ExprOfForm(prog.a), 2),
                   PrintNode(Num(0, 3), 3)>>

-----------------------------------------------------------------------------
(* C26 *)

\* the value of ExprForms[a] with x = 5
ValueOfForm(a) ==
    CASE a = 1 -> IntV(5)
      [] a = 2 -> IntV(7)
      [] a = 3 -> StrV("a")
      [] a \in {4, 5, 7} -> IntV(8)
      [] a = 6 -> StrV("ab")
      [] a = 8 -> IntV(16)
      [] a = 9 -> IntV(10)
      [] a = 10 -> IntV(11)
      [] OTHER -> BoolV(FALSE)

\* C26: "bl y = e" binds y to the value of the whole expression e: the
\* declaration holds the expression of e, no syntax error is reported, and
\* the run of "bl x = 5", "bl y = e", "dy(y)" ends with y bound to the value
\* of e
C26_DeclBindsWholeExpression ==
    (prog.shape = "decl_expr" /\ ParseOver) =>
        /\ hist.reported = <<>>
        /\ ast = <<VarDeclNode("x", Num(5, 1), 1),
                   VarDeclNode("y", ExprOfForm(prog.a), 2),
                   PrintNode(VarNode("y", 3), 3)>>
        /\ phase = "done" =>
              /\ "y" \in DOMAIN variables
              /\ variables["y"] = ValueOfForm(prog.a)

-----------------------------------------------------------------------------
(* C23 *)

\* C23: the step in which a statement raises an error binds nothing, changes
\* no list and leaves the program counter where it is; from then on no
\* statement is handed to execute_statement (the run is leaving interpret or
\* is over), and bindings, lists and program counter stay as they are
C23_ErrorEndsRun ==
    [][/\ error' # None
            => /\ phase' \in {"exit", "done"}
               /\ stack' = <<>>
               /\ variables' = variables
               /\ heap' = heap
               /\ current_idx' = current_idx
       /\ error # None
            => /\ ~RunsStatement
               /\ hist'.last_stmt = hist.last_stmt
               /\ error' = error]_vars

\* a type error was raised in the loop body during its first pass: x, bound
\* before the loop and rebound in its body, keeps its value 2; neither the
\* rest of the body nor the statement after the loop has run
C23_RaisedInLoopBody ==
    /\ prog = P("body_raise", 3, 0)
    /\ phase = "done"
    /\ error # None /\ error.cls = "PinLangTypeError"
    /\ hist.last_stmt.line_num = 5
    /\ hist.last_depth = 1
    /\ current_idx = 2
    /\ variables = [n \in {"x", "s"} |-> IF n = "x" THEN IntV(2) ELSE StrV("a")]

-----------------------------------------------------------------------------
(* C24 *)

\* an exception of the language, not one of the host
IsPinLangError(exc) ==
    exc.cls \in {"PinLangRuntimeError", "PinLangTypeError", "PinLangSyntaxError"}

\* how the text of an error on line n of the run's file begins
ErrorTextStart(n) == "error, file " \o FileName \o ", line " \o IntToStr(n)

\* C24: the run's file name being known, every error of the language raised
\* in a run carries that file name and a line number, and its text names
\* both; the text of a type error raised with a fix suggestion ends with it
C24_ErrorsNameFileAndLine ==
    (error # None /\ IsPinLangError(error)) =>
        /\ error.file_name = StrV(FileName)
        /\ error.line_num > 0
        /\ SubSeq(PinLangError_str(error), 1, Len(ErrorTextStart(error.line_num)))
             = ErrorTextStart(error.line_num)
        /\ (error.cls = "PinLangTypeError" /\ error.fix_suggestion # None) =>
              \E k \in 1..Len(PinLangError_str(error)) :
                  SubSeq(PinLangError_str(error), k, Len(PinLangError_str(error)))
                    = "\nsuggested fix: " \o error.fix_suggestion.v

-----------------------------------------------------------------------------
(* C25 *)

\* C25: every pass of the top-level loop of parse_program, the passes that
\* report a syntax error and recover included, leaves the parser further on
\* in the token sequence, so that the end-of-file token is reached
C25_ParseStepConsumes ==
    [][(phase = "parse" /\ phase' = "parse") => pos' > pos]_vars

\* ---------------------------------------------------------------------------
\* ListEdit and the other variables (interpreter.py 452-478, 107-124)
\* ---------------------------------------------------------------------------

\* the value every variable but the edited list shows is the same after the
\* step as before it
OthersKeepTheirValue ==
    \A n \in DOMAIN variables \ {StatementToRun.list_name} :
        /\ n \in DOMAIN variables'
        /\ Shown(heap', variables'[n]) = Shown(heap, variables[n])

\* C27: a ListEdit of the list named L changes only the value bound to L:
\* every other variable, one that was assigned from L included, has the same
\* value before and after the edit.
C27_EditChangesOnlyItsList == [][EditSucceeds => OthersKeepTheirValue]_vars

\* ---------------------------------------------------------------------------
\* The warning of the dispatch loop (interpreter.py 516-565)
\* ---------------------------------------------------------------------------

\* interpret has printed its warning
InterpretWarned == phase = "done" /\ "interpret" \in warned

\* C28: the warning of the top-level dispatch loop is printed only when the
\* cap cut the run short: the program counter is still within the program
\* after max_iterations steps, and no statement raised an error.
C28_WarningOnlyWhenCut ==
    InterpretWarned => /\ iteration_count = max_iterations
                       /\ current_idx < Len(Statements)
                       /\ error = None

\* ---------------------------------------------------------------------------
\* Convert there and back (interpreter.py 156-184)
\* ---------------------------------------------------------------------------

\* the run of a program that converts an integer n to zifu and the string
\* back to shuzi is over
ConvertedThereAndBack == prog.shape = "convert" /\ phase = "done"

\* C29: an integer a program computes (a negative difference included),
\* converted to zifu and the string converted back to shuzi, is the same
\* integer again, and both conversions succeed.
C29_ConvertRoundTrip ==
    ConvertedThereAndBack
        => /\ error = None
           /\ "r" \in DOMAIN variables
           /\ variables["r"] = IntV(prog.a - prog.b)

\* ---------------------------------------------------------------------------
\* What follows an if (parser.py 398-457)
\* ---------------------------------------------------------------------------

\* every If of stmts, and of the bodies in stmts, is the last statement of
\* the sequence it stands in
RECURSIVE IfIsLast(_)
IfIsLast(stmts) ==
    \A k \in 1..Len(stmts) :
        CASE stmts[k].kind = "IfNode" ->
                 /\ k = Len(stmts)
                 /\ IfIsLast(stmts[k].body)
                 /\ IfIsLast(stmts[k].else_body)
          [] stmts[k].kind = "LoopNode" -> IfIsLast(stmts[k].body)
          [] OTHER -> TRUE

\* the lines of the IF tokens of the source
IfLines == {tokens[i].line_num : i \in {j \in 1..Len(tokens) : tokens[j].type = "IF"}}

\* the source is an if, "dy(2)" below it, and the line of that "dy(2)"
AfterIf == prog.shape = "after_if"
AfterIfLine ==
    3 + prog.a + (CASE prog.b = 0 -> 1 [] prog.b = 1 -> 3 [] OTHER -> 2)

\* C30: in the program the parser returns, an If is the last statement of the
\* sequence that holds it (the program or a body); after a parse without
\* error no top-level statement, so no jump target, is of a line below an if,
\* whatever blank lines the source has: what is written after an if is in its
\* body or its else branch.
C30_IfIsLast ==
    /\ IfIsLast(ast)
    /\ (ParseOver /\ hist.reported = <<>>) =>
          /\ \A l \in TopLines : \A i \in IfLines : l <= i
          /\ \A name \in DOMAIN jump_targets : \A i \in IfLines :
                Statements[jump_targets[name] + 1].line_num <= i
    /\ (AfterIf /\ ParseOver) =>
          /\ hist.reported = <<>>
          /\ Len(ast) = 2
          /\ AfterIfLine \in NestedLines \ TopLines

\* "dy(2)", two blank lines below the body of an if, is the second statement
\* of the body of that if, and the program has run
C30_InBodyAfterBlankLines ==
    /\ prog = P("after_if", 2, 0)
    /\ phase = "done"
    /\ Kinds(ast) = <<"VarDeclNode", "IfNode">>
    /\ ast[2].body = <<PrintNode(Num(1, 3), 3), PrintNode(Num(2, 6), 6)>>
    /\ ast[2].else_body = <<>>

====
